----------------------------- MODULE Mailboxes -----------------------------
(***************************************************************************)
(* Mailbox of message/mailbox.rs, as operators.  Nothing ever swaps        *)
(* `current` into `previous`, so `previous` stays empty and `prev_index`   *)
(* stays 0; the operators read both as the code does.                      *)
(***************************************************************************)
EXTENDS Integers, Sequences

None == 0  \* Option::None: the messages are numbered from 1

NewMailbox == [current |-> <<>>, previous |-> <<>>, prev_index |-> 0, next_index |-> 0]

\* The index of the message after this one; push follows in a step of its own.
Allocate(m) == [m EXCEPT !.next_index = @ + 1]

\* Vec::push: the length was read before the message is written behind it.
PushAt(m, len, message) == [m EXCEPT !.current = Append(SubSeq(@, 1, len), message)]

Send(m, message) == PushAt(Allocate(m), Len(m.current), message)

MailboxLen(m) == Len(m.current) + Len(m.previous)

\* Mutant: an inbox that is ahead of its mailbox counts below 0.
CountUnreadUnclamped(m, index) == MailboxLen(m) - (index - m.prev_index)

CountUnread(m, index) ==
  LET unread == MailboxLen(m) - (index - m.prev_index)
  IN  IF unread < 0 THEN 0 ELSE IF unread > MailboxLen(m) THEN MailboxLen(m) ELSE unread

Get(m, index) ==
  LET rel   == index - m.prev_index
      after == rel - Len(m.previous)
  IN  IF rel < Len(m.previous) THEN m.previous[rel + 1]
      ELSE IF after < Len(m.current) THEN m.current[after + 1] ELSE None
=============================================================================
