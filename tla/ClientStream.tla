------------------------------ MODULE ClientStream -----------------------------
(***************************************************************************)
(* What a TCP client may rely on, with one actor in place of two tasks and *)
(* no ring, lock or socket: the session reads the feed forward, possibly   *)
(* over messages it never sees, keeps what the subscriptions match when it *)
(* looks, and sends whole frames only, a PONG for a PING and a DEPTH for a *)
(* quote it kept.                                                          *)
(***************************************************************************)
EXTENDS Integers, Sequences

CONSTANT Symbols

VARIABLES feed, subs, position, phase, pinged, frames, gone

vars == <<feed, subs, position, phase, pinged, frames, gone>>

Init ==
  /\ feed = <<>>
  /\ subs = {}
  /\ position = 0
  /\ phase = "idle"
  /\ pinged = FALSE
  /\ frames = <<>>
  /\ gone = FALSE

Publish(m) ==
  /\ feed' = Append(feed, m)
  /\ UNCHANGED <<subs, position, phase, pinged, frames, gone>>

Subscribe(S) ==
  /\ subs' \in {subs \union S, subs \ S}
  /\ UNCHANGED <<feed, position, phase, pinged, frames, gone>>

Read(p) ==
  /\ phase = "idle"
  /\ position < p
  /\ position' = p
  /\ phase' = "read"
  /\ UNCHANGED <<feed, subs, pinged, frames, gone>>

Keep ==
  /\ phase = "read"
  /\ feed[position].kind = "depth"
  /\ subs = {} \/ feed[position].sym \in subs
  /\ phase' = "kept"
  /\ UNCHANGED <<feed, subs, position, pinged, frames, gone>>

Skip ==
  /\ phase = "read"
  /\ feed[position].kind # "depth" \/ (subs # {} /\ feed[position].sym \notin subs)
  /\ phase' = "idle"
  /\ UNCHANGED <<feed, subs, position, pinged, frames, gone>>

SendDepth ==
  /\ phase = "kept"
  /\ phase' = "idle"
  /\ frames' = Append(frames, [type |-> "DEPTH", pos |-> position])
  /\ UNCHANGED <<feed, subs, position, pinged, gone>>

Ping ==
  /\ ~pinged
  /\ pinged' = TRUE
  /\ UNCHANGED <<feed, subs, position, phase, frames, gone>>

SendPong ==
  /\ pinged
  /\ pinged' = FALSE
  /\ frames' = Append(frames, [type |-> "PONG", pos |-> 0])
  /\ UNCHANGED <<feed, subs, position, phase, gone>>

\* A write fails: its frame is given up, at most one of each kind in a session.
GiveUp ==
  /\ \/ phase = "kept" /\ phase' = "lost" /\ UNCHANGED pinged
     \/ pinged /\ pinged' = FALSE /\ UNCHANGED phase
  /\ UNCHANGED <<feed, subs, position, frames, gone>>

Leave ==
  /\ ~gone
  /\ gone' = TRUE
  /\ phase' = "lost"
  /\ pinged' = FALSE
  /\ UNCHANGED <<feed, subs, position, frames>>

Next ==
  \/ \E m \in [sym : Symbols, kind : {"depth", "other"}] : Publish(m)
  \/ \E S \in SUBSET Symbols : Subscribe(S)
  \/ \E p \in DOMAIN feed : Read(p)
  \/ Keep \/ Skip \/ SendDepth \/ Ping \/ SendPong \/ GiveUp \/ Leave

Spec == Init /\ [][Next]_vars
=============================================================================
