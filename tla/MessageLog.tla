----------------------------- MODULE MessageLog -----------------------------
(***************************************************************************)
(* What a mailbox promises: every reader receives the messages in the      *)
(* order in which they were sent, each once, and misses none.              *)
(***************************************************************************)
EXTENDS SequencesExt

VARIABLES
  sent,     \* the messages, in the order in which they were sent
  received  \* what each reader has received

vars == <<sent, received>>

Init ==
  /\ sent = <<>>
  /\ \A r \in DOMAIN received : received[r] = <<>>

Send ==
  /\ sent' # <<>> /\ Front(sent') = sent
  /\ UNCHANGED received

Receive(r) ==
  LET next == Len(received[r]) + 1
  IN  /\ next \in DOMAIN sent
      /\ received' = [received EXCEPT ![r] = Append(@, sent[next])]
      /\ UNCHANGED sent

\* New readers begin with the first message.
Begin ==
  /\ DOMAIN received' = DOMAIN received
  /\ \A r \in DOMAIN received : received'[r] \in {received[r], <<>>}
  /\ UNCHANGED sent

\* A new mailbox takes the place of one that nobody has read.
Replace ==
  /\ \A r \in DOMAIN received : received[r] = <<>>
  /\ sent' = <<>>
  /\ UNCHANGED received

Next ==
  \/ Send
  \/ \E r \in DOMAIN received : Receive(r)
  \/ Begin
  \/ Replace

Spec == Init /\ [][Next]_vars
=============================================================================
