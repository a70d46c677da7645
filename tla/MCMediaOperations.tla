-------------------------- MODULE MCMediaOperations --------------------------
(***************************************************************************)
(* MediaOperations for TLC: a two-part title, a playback session that      *)
(* chains two operations and a second session that competes with it.       *)
(***************************************************************************)
EXTENDS MediaOperations

CONSTANTS o1, o2, o3, s1, s2, f1, f2, shaA, shaB, shaC

MCFileLists ==
    LET part(id, duration, missing, identity) ==
            [id |-> id, duration |-> duration, missing |-> missing,
             identity |-> identity]
        first == part(f1, 2, FALSE, shaA)
        second == part(f2, 2, FALSE, shaB)
    IN  { <<first, second>>,
          <<second, first>>,                              \* reordered
          <<part(f1, 2, FALSE, shaC), second>>,           \* replaced content
          <<part(f1, 2, TRUE, shaA), second>>,            \* lost
          <<part(f1, 0, FALSE, None), second>> }          \* not probed yet

\* Which operation of which session, and what it chains to.
Links ==
    { [id |-> o1, session |-> s1, sequence |-> 1, epoch |-> 0, predecessor |-> None],
      [id |-> o2, session |-> s1, sequence |-> 2, epoch |-> 1, predecessor |-> o1],
      [id |-> o2, session |-> s1, sequence |-> 1, epoch |-> 0, predecessor |-> None],
      [id |-> o3, session |-> s2, sequence |-> 1, epoch |-> 0, predecessor |-> None],
      [id |-> o3, session |-> s2, sequence |-> 2, epoch |-> 0, predecessor |-> o1] }

\* What was chosen, against the order f1, f2 of two seconds each.
UserChoices ==
    LET choice(intent, file, offset, position) ==
            [intent |-> intent, file |-> file, offset |-> offset,
             position |-> position, finished |-> intent = "finish"]
    IN  { choice("heartbeat", f1, 1, 1), choice("heartbeat", f2, 1, 3),
          choice("seek", f1, 1, 1), choice("restart", f1, 0, 0),
          choice("finish", f2, 2, 4), choice("finish", f1, 2, 2),
          choice("seek", f1, 3, 3), choice("reset", None, 0, 0) }

\* The base of a chained operation is never looked at.
MCRequests ==
    LET request(l, c, g, b, r) ==
            [id |-> l.id, session |-> l.session, sequence |-> l.sequence,
             epoch |-> l.epoch, generation |-> g, base |-> b, reset |-> r,
             predecessor |-> l.predecessor, intent |-> c.intent,
             file |-> c.file, offset |-> c.offset, position |-> c.position,
             finished |-> c.finished]
        all == {request(l, c, g, b, r) : l \in Links, c \in UserChoices,
                                         g \in 1..2, b \in 0..2, r \in 0..1}
    IN  {o \in all : /\ o.reset <= o.base \/ o.predecessor # None
                     /\ o.predecessor # None => o.base = 0}

=============================================================================
