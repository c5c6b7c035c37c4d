---------------------------- MODULE FilterRules ----------------------------
(***************************************************************************)
(* A tenant's filter rules: what a rule says of a message (condition.go,   *)
(* rule.go), the store that keeps them with its cache of the enabled ones  *)
(* (stores/postgres/store.go over pkg/cache), and the screening of a       *)
(* message by one of several instances (screen.go) while rules are edited  *)
(* on any of them.                                                         *)
(*                                                                         *)
(* A message maps each field to the strings, the number or the truth value *)
(* it has there; what a text operator finds in a string is the constant    *)
(* Hits.  A rule set is followed by its version: the table's content after *)
(* that many writes.                                                       *)
(***************************************************************************)
EXTENDS Integers, Sequences, FiniteSets, SequencesExt

CONSTANTS
  Nodes,       \* gateway instances
  Catalogue,   \* rules an operator may save
  Messages,    \* messages to screen
  Hits(_, _, _),  \* whether an operator's value is found in a string
  Direction,   \* the direction of the messages
  EnabledTTL,  \* enabledRulesTTL, in ticks
  MaxQuery,    \* ticks a query for the rules may take
  MaxWrites    \* bound on edits

VARIABLES
  versions,  \* the table's content after each write, oldest first
  cached,    \* per node: the enabled rules it remembers, with their version
  generation,
  reader,    \* per node: a read of the enabled rules that missed the cache
  writer,    \* per node: an edit written and not yet invalidated
  ages,      \* ticks since each version was superseded
  returned,  \* HISTORY: version as of the last edit that returned on a node
  verdict    \* the last screening anywhere: what it decided and from what

vars == <<versions, cached, generation, reader, writer, ages, returned, verdict>>
-----------------------------------------------------------------------------
TextFields == {"from", "any_recipient", "subject_or_body", "attachment_name",
               "attachment_text", "provider", "spf"}
NumberFields == {"recipient_count", "message_size"}
BoolFields == {"has_attachment", "has_executable_attachment"}

\* allowedOperators, inboundOnlyFields and outboundOnlyFields.
AllowedOperators(field) ==
  IF field \in NumberFields THEN {"gte"}
  ELSE IF field \in BoolFields THEN {"is_true"}
  ELSE IF field = "header" THEN {"contains", "matches", "equals", "exists"}
  ELSE IF field \in {"from", "any_recipient"} THEN {"contains", "matches", "equals", "domain_is"}
  ELSE IF field \in {"provider", "spf"} THEN {"equals", "in"}
  ELSE {"contains", "matches", "equals", "in"}

\* Condition.Validate.
ValidCondition(c, direction) ==
  /\ c.field = "spf" => direction = "inbound"
  /\ c.field = "provider" => direction = "outbound"
  /\ c.op \in AllowedOperators(c.field)
  /\ c.op \in {"is_true", "exists", "gte"} \/ c.values # {}
  /\ c.op = "gte" => c.number >= 0

\* Rule.Validate: no conditions would mean every message.
ValidRule(r) ==
  /\ r.conditions # {}
  /\ \A c \in r.conditions \cup r.exceptions : ValidCondition(c, r.direction)

\* Condition.Matches: values are alternatives, and so are the strings a field
\* has; an empty string is no string.
Matches(c, m) ==
  IF c.field \in BoolFields THEN m.flags[c.field]
  ELSE IF c.field \in NumberFields THEN m.numbers[c.field] >= c.number
  ELSE IF c.op = "exists" THEN m.strings[c.field] # {}
  ELSE \E s \in m.strings[c.field] \ {""}, v \in c.values : Hits(c.op, s, v)

\* Rule.Matches: every condition and no exception.
Fires(r, m) ==
  /\ r.enabled
  /\ \A c \in r.conditions : Matches(c, m)
  /\ \A c \in r.exceptions : ~Matches(c, m)

\* The order Enabled reads them in: by priority, then by id.
InOrder(rules) ==
  SetToSortSeq(rules, LAMBDA a, b : a.priority < b.priority
                                    \/ (a.priority = b.priority /\ a.id < b.id))

\* Mutant of Evaluate: the last rule that fires decides.
EvaluateLast(rules, m) ==
  LET firing == SelectSeq(rules, LAMBDA r : Fires(r, m))
  IN  IF firing = <<>> \/ Last(firing).action = "allow" THEN "deliver" ELSE Last(firing).action

\* Evaluate: the first rule that fires decides, and an allow rule decides that
\* the message is delivered.
Evaluate(rules, m) ==
  LET firing == SelectSeq(rules, LAMBDA r : Fires(r, m))
  IN  IF firing = <<>> \/ Head(firing).action = "allow" THEN "deliver" ELSE Head(firing).action
-----------------------------------------------------------------------------
Current == Len(versions)
Table == versions[Current]

NoCache == [version |-> 0, rules |-> <<>>, left |-> -1]
NoRead == [pc |-> "idle", generation |-> 0, version |-> 0, rules |-> <<>>, waited |-> 0]

\* The query of Enabled: this direction's enabled rules.
EnabledRules(v) == InOrder({r \in versions[v] : r.enabled /\ r.direction = Direction})

Init ==
  /\ versions = <<{}>>
  /\ cached = [n \in Nodes |-> NoCache]
  /\ generation = [n \in Nodes |-> 0]
  /\ reader = [n \in Nodes |-> NoRead]
  /\ writer = [n \in Nodes |-> 0]
  /\ ages = <<0>>
  /\ returned = [n \in Nodes |-> 1]
  /\ verdict = [version |-> 0, message |-> CHOOSE m \in Messages : TRUE, action |-> "deliver"]

\* Create, Update and Delete: the statement, which may fail or find no row.
Write(n, table) ==
  /\ writer[n] = 0 /\ Current < MaxWrites
  /\ table \in {Table \cup {r} : r \in {c \in Catalogue : ValidRule(c)
                                          /\ \A t \in Table : t.id # c.id}}
               \cup {{IF t.id = r.id THEN r ELSE t : t \in Table} :
                       r \in {c \in Catalogue : ValidRule(c)}}
               \cup {Table \ {t} : t \in Table}
  /\ versions' = Append(versions, table)
  /\ ages' = Append(ages, 0)
  /\ writer' = [writer EXCEPT ![n] = Current + 1]
  /\ UNCHANGED <<cached, generation, reader, returned, verdict>>

\* invalidate, whether or not the statement succeeded, and the answer.
Invalidate(n) ==
  /\ writer[n] # 0
  /\ generation' = [generation EXCEPT ![n] = @ + 1]
  /\ cached' = [cached EXCEPT ![n] = NoCache]
  /\ returned' = [returned EXCEPT ![n] = writer[n]]
  /\ writer' = [writer EXCEPT ![n] = 0]
  /\ UNCHANGED <<versions, reader, ages, verdict>>

\* Enabled, from the cache: TTLCache.Get gives no entry past its time.
Screen(n, m) ==
  /\ reader[n].pc = "idle" /\ cached[n].left >= 0
  /\ verdict' = [version |-> cached[n].version, message |-> m,
                 action |-> Evaluate(cached[n].rules, m)]
  /\ UNCHANGED <<versions, cached, generation, reader, writer, ages, returned>>

\* Enabled, past the cache: the generation, then the query.
StartRead(n) ==
  /\ reader[n].pc = "idle" /\ cached[n].left < 0
  /\ reader' = [reader EXCEPT ![n] = [NoRead EXCEPT !.pc = "asking",
                                                    !.generation = generation[n]]]
  /\ UNCHANGED <<versions, cached, generation, writer, ages, returned, verdict>>

Query(n) ==
  /\ reader[n].pc = "asking"
  /\ reader' = [reader EXCEPT ![n].pc = "read", ![n].version = Current,
                              ![n].rules = EnabledRules(Current)]
  /\ UNCHANGED <<versions, cached, generation, writer, ages, returned, verdict>>

\* The query fails, or a stored rule is no longer valid: the message is refused.
QueryFails(n) ==
  /\ reader[n].pc = "asking"
  /\ reader' = [reader EXCEPT ![n] = NoRead]
  /\ UNCHANGED <<versions, cached, generation, writer, ages, returned, verdict>>

\* Mutant of FinishRead: remembered whatever was edited meanwhile.
FinishReadAnyway(n, m) ==
  /\ reader[n].pc = "read"
  /\ cached' = [cached EXCEPT ![n] = [version |-> reader[n].version, rules |-> reader[n].rules,
                                      left |-> EnabledTTL]]
  /\ verdict' = [version |-> reader[n].version, message |-> m,
                 action |-> Evaluate(reader[n].rules, m)]
  /\ reader' = [reader EXCEPT ![n] = NoRead]
  /\ UNCHANGED <<versions, generation, writer, ages, returned>>

\* Enabled remembers what it read unless a rule was edited here meanwhile, and
\* Screen decides from it either way.
FinishRead(n, m) ==
  /\ reader[n].pc = "read"
  /\ cached' = IF generation[n] = reader[n].generation
               THEN [cached EXCEPT ![n] = [version |-> reader[n].version,
                                           rules |-> reader[n].rules, left |-> EnabledTTL]]
               ELSE cached
  /\ verdict' = [version |-> reader[n].version, message |-> m,
                 action |-> Evaluate(reader[n].rules, m)]
  /\ reader' = [reader EXCEPT ![n] = NoRead]
  /\ UNCHANGED <<versions, generation, writer, ages, returned>>

\* Mutant of Aged: an entry is good for ever.
AgedNever(entry) == entry

\* TTLCache: an entry past its time is none.
Aged(entry) == IF entry.left > 0 THEN [entry EXCEPT !.left = @ - 1] ELSE NoCache

\* Time passes: an entry is good for its TTL, a query takes MaxQuery at most.
AgeBound == EnabledTTL + MaxQuery + 1
Tick ==
  /\ \A n \in Nodes : reader[n].pc = "idle" \/ reader[n].waited < MaxQuery
  /\ cached' = [n \in Nodes |-> Aged(cached[n])]
  /\ reader' = [n \in Nodes |-> IF reader[n].pc = "idle" THEN reader[n]
                                ELSE [reader[n] EXCEPT !.waited = @ + 1]]
  /\ ages' = [v \in DOMAIN ages |-> IF v = Current \/ ages[v] = AgeBound THEN ages[v]
                                    ELSE ages[v] + 1]
  /\ UNCHANGED <<versions, generation, writer, returned, verdict>>

Next ==
  \/ \E n \in Nodes :
       \/ \E table \in SUBSET Catalogue : Write(n, table)
       \/ Invalidate(n) \/ StartRead(n) \/ Query(n) \/ QueryFails(n)
       \/ \E m \in Messages : Screen(n, m) \/ FinishRead(n, m)
  \/ Tick

Spec == Init /\ [][Next]_vars
-----------------------------------------------------------------------------
TypeOK ==
  /\ \A v \in DOMAIN versions : versions[v] \subseteq Catalogue
  /\ \A v \in DOMAIN versions : \A r, s \in versions[v] : r.id = s.id => r = s
  /\ \A n \in Nodes : cached[n].version \in 0..Current /\ reader[n].version \in 0..Current

\* "Writes through this instance take effect at once" (store.go): no read that
\* raced an edit leaves the rules from before it in the cache of the node the
\* edit returned on.
EditAppliesHere == \A n \in Nodes : cached[n].left >= 0 => cached[n].version >= returned[n]

\* The TTL "is how stale another instance's edit can be" (store.go): the rules a
\* node remembers were the table's within the cache's time and one query.
EditAppliesSoon ==
  \A n \in Nodes : cached[n].left >= 0 => ages[cached[n].version] <= EnabledTTL + MaxQuery

\* What a screening decides is what the rules it was given say: the matching
\* rule of least priority, and of two the one saved under the lesser id.
FirstMatchDecides ==
  verdict.version # 0 =>
    LET m == verdict.message
        firing == {r \in versions[verdict.version] : r.direction = Direction /\ Fires(r, m)}
        Ahead(r, s) == r.priority < s.priority \/ (r.priority = s.priority /\ r.id <= s.id)
        first == CHOOSE r \in firing : \A s \in firing : Ahead(r, s)
    IN  verdict.action = IF firing = {} \/ first.action = "allow" THEN "deliver"
                            ELSE first.action
-----------------------------------------------------------------------------
(* What the proofs of these properties rest on.                            *)

\* Times are whole.
FilterTimes == EnabledTTL \in Nat /\ MaxQuery \in Nat

RuleLists == {<<>>} \cup {InOrder(rules) : rules \in SUBSET Catalogue}

RuleTypes ==
  /\ versions \in Seq(SUBSET Catalogue) /\ ages \in Seq(Nat)
  /\ Len(ages) = Current /\ Current > 0
  /\ cached \in [Nodes -> [version : Nat, rules : RuleLists, left : Int]]
  /\ reader \in [Nodes -> [pc : {"idle", "asking", "read"}, generation : Nat, version : Nat,
                           rules : RuleLists, waited : Nat]]
  /\ generation \in [Nodes -> Nat]
  /\ writer \in [Nodes -> 0..Current] /\ returned \in [Nodes -> 0..Current]

\* A read holds the table's rules of when it asked: nothing has aged longer than the
\* read has waited, and no edit returned here since unless the generation moved.
ReadsRecent ==
  /\ ages[Current] = 0
  /\ \A n \in Nodes :
       /\ reader[n].generation <= generation[n]
       /\ reader[n].waited <= MaxQuery
       /\ reader[n].pc = "read" =>
            /\ reader[n].version \in 1..Current
            /\ ages[reader[n].version] <= reader[n].waited
            /\ generation[n] = reader[n].generation => reader[n].version >= returned[n]

\* What is remembered was the table's one query before it was cached.
CacheRecent ==
  \A n \in Nodes : cached[n].left >= 0 =>
    /\ cached[n].version \in 1..Current /\ cached[n].left <= EnabledTTL
    /\ cached[n].version >= returned[n]
    /\ ages[cached[n].version] <= MaxQuery + (EnabledTTL - cached[n].left)

RulesInv == RuleTypes /\ ReadsRecent /\ CacheRecent
=============================================================================
