----------------------------- MODULE MCSystems -----------------------------
(* Instances of Systems for TLC: a plain resource, one type of message, and  *)
(* schedules whose systems read and write both.                              *)
EXTENDS SystemsMessages

CONSTANTS World, Score, Mail

MCAccessTypes == {World, Score, Mail}
MCValues == {Score}
MCMessages == {Mail}

Arg(kind, of) == [kind |-> kind, of |-> of]
Res(r) == Arg("res", r)
ResMut(r) == Arg("resmut", r)
Inbox(m) == Arg("inbox", m)
Outbox(m) == Arg("outbox", m)
Tick == Arg("tick", World)
Local == Arg("local", World)

Reader == <<Tick, Inbox(Mail)>>
Sender == <<Outbox(Mail)>>
Poster == <<ResMut(Mail), Local>>
Scorer == <<ResMut(Score)>>
Referee == <<Res(Score), Inbox(Mail)>>
Observer == <<Arg("world", World)>>

MCSchedules ==
  {<<Poster, Reader, Referee>>, <<Scorer, Reader, Scorer>>,
   <<Reader, Poster>>, <<Sender, Reader>>, <<Reader, Sender>>, <<Sender, Poster>>,
   <<Sender, Sender>>, <<Scorer, Referee>>, <<Observer, Poster>>, <<Scorer, Observer>>}
MCSingles == {<<Inbox(Mail), Outbox(Mail)>>}
=============================================================================
