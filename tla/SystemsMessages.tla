-------------------------- MODULE SystemsMessages --------------------------
(***************************************************************************)
(* The mailboxes and inboxes of Systems implement MessageLog.              *)
(***************************************************************************)
EXTENDS Systems

\* Every inbox is a reader of the log of its mailbox, from its init on, over any
\* number of calls and runs, those that panic included, as long as the mailbox is not
\* replaced after a reader has begun.
Log(m) == INSTANCE MessageLog WITH
  sent <- written[m],
  received <- [p \in Places |-> IF Reads(p, m) THEN received[p[1]][p[2]] ELSE <<>>]

ImplementsLog ==
  [][\A m \in Messages : m \notin replaced' => [Log(m)!Next]_(Log(m)!vars)]_vars
=============================================================================
