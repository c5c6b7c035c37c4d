------------------------------- MODULE Bounce -------------------------------
(***************************************************************************)
(* How panmail reads a delivery error (pkg/emailutil/bounce.go).           *)
(*                                                                         *)
(* ClassifyError matches the text of an error against pattern lists.  What *)
(* the verdict depends on is which lists match where, and the SMTP reply   *)
(* code the text holds, so an error is abstracted to a record of those     *)
(* facts.                                                                  *)
(***************************************************************************)

\* "empty" is the empty error text, "none" a text without an SMTP reply.
ReplyCode == {"empty", "none", "4xx", "5xx"}

\* The pattern lists, each with the enhanced status codes that go with it.
Evidence == {"infra", "transient", "unsubscribe", "complaint", "content", "hard"}

\* prefix: the lists that match in front of the server's reply (a dial error, a
\* client's "smtp rcpt to"; the whole text when it holds no reply).  reply: the
\* lists that match from the reply code on.
ErrorText == [code: ReplyCode, prefix: SUBSET Evidence, reply: SUBSET Evidence]

VerdictType == {"REJECTED", "SOFT_BOUNCE", "UNSUBSCRIBED", "SPAM_REPORT",
                "HARD_BOUNCE", "BOUNCED", "UNSPECIFIED"}

Class == [type: VerdictType, retryable: BOOLEAN]

Verdict(type, retryable) == [type |-> type, retryable |-> retryable]

\* The verdicts ClassifyError returns with RecipientAtFault set.
AtFault == {"UNSUBSCRIBED", "SPAM_REPORT", "HARD_BOUNCE"}

\* Everything but our own faults is looked for in the server's reply alone.
ReadOf(err) == IF err.code = "none" THEN err.prefix ELSE err.reply

ClassifyError(err) ==
  LET says(list) == list \in ReadOf(err) IN
  IF err.code = "empty"                      THEN Verdict("UNSPECIFIED", FALSE)
  ELSE IF "infra" \in err.prefix \cup err.reply THEN Verdict("REJECTED", TRUE)
  ELSE IF err.code = "4xx" \/ says("transient") THEN Verdict("SOFT_BOUNCE", TRUE)
  ELSE IF says("unsubscribe")                THEN Verdict("UNSUBSCRIBED", FALSE)
  ELSE IF says("complaint")                  THEN Verdict("SPAM_REPORT", FALSE)
  ELSE IF says("content")                    THEN Verdict("REJECTED", FALSE)
  ELSE IF says("hard")                       THEN Verdict("HARD_BOUNCE", FALSE)
  ELSE Verdict("BOUNCED", TRUE)
=============================================================================
