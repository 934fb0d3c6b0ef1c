------------------------------ MODULE FrameFeed ------------------------------
(***************************************************************************)
(* What the tracker service promises for the camera frames of each scope:  *)
(* a lossy feed.  A frame may be lost, but the frames of a camera that are *)
(* delivered to the scope's tracker are delivered in the order in which    *)
(* they were sent, each once, and a delivery holds at most one frame of a  *)
(* camera.  TrackerPipeline implements this with a buffer, a snapshot and  *)
(* worker queues.                                                          *)
(***************************************************************************)
EXTENDS Naturals

CONSTANTS
  Channels,  \* the scopes
  Sources,   \* the cameras
  Seqs       \* numbers of the frames, growing with their arrival

Frame == [source : Sources, seq : Seqs]

VARIABLES
  pending,    \* per channel, frames sent and neither delivered nor lost
  delivered   \* per channel and source, the number delivered last, 0 if none

feedVars == <<pending, delivered>>

Init ==
  /\ pending = [k \in Channels |-> {}]
  /\ delivered = [k \in Channels |-> [c \in Sources |-> 0]]

\* A frame enters, newer than every frame its source has in this channel; older
\* frames of that source may be lost to make room.
Send(k, f, lost) ==
  /\ \A g \in pending[k] : g.source = f.source => g.seq < f.seq
  /\ delivered[k][f.source] < f.seq
  /\ \A g \in lost : g.source = f.source
  /\ pending' = [pending EXCEPT ![k] = (@ \ lost) \cup {f}]
  /\ UNCHANGED delivered

Lose(k, lost) ==
  /\ pending' = [pending EXCEPT ![k] = @ \ lost]
  /\ UNCHANGED delivered

\* A set of pending frames, at most one of each source, each older than the
\* frames of its source that stay pending, goes to the channel's tracker.
Deliver(k, got) ==
  /\ got # {}
  /\ got \subseteq pending[k]
  /\ \A f \in got, g \in pending[k] :
       f.source = g.source => f = g \/ f.seq < g.seq
  /\ pending' = [pending EXCEPT ![k] = @ \ got]
  /\ delivered' = [delivered EXCEPT ![k] = [c \in Sources |->
       IF \E f \in got : f.source = c
       THEN (CHOOSE f \in got : f.source = c).seq ELSE delivered[k][c]]]

Next ==
  \E k \in Channels :
    \/ \E f \in Frame, lost \in SUBSET pending[k] : Send(k, f, lost)
    \/ \E lost \in SUBSET pending[k] : Lose(k, lost)
    \/ \E got \in SUBSET pending[k] : Deliver(k, got)

Spec == Init /\ [][Next]_feedVars

==============================================================================
