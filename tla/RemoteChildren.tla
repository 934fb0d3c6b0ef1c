--------------------------- MODULE RemoteChildren ---------------------------
(***************************************************************************)
(* Remote children of the controller (updateSubscriptions in               *)
(* scene_controller.py, child_scene_controller.py).  The thread of the     *)
(* parent's MQTT client brings the connections to remote children in line  *)
(* with the Manager's rows; each connection has a network loop of its own  *)
(* whose callbacks put work on one bounded queue, which one worker empties.*)
(*                                                                         *)
(* A controller of a child is the index of its record in "made".           *)
(***************************************************************************)
EXTENDS Integers, Sequences, SequencesExt, FiniteSets

CONSTANTS
  Parents, Children,
  ParentOf,      \* the parent scene of each child
  Hosts, BadHosts,  \* host names; the bad ones make the constructor raise
  FirstRow,      \* the rows at the start
  Capacity,      \* size of the work queue
  MaxChanges, MaxFailures, MaxLosses  \* bounds: rows changed, requests failed, connections lost

ASSUME ChildrenAssumption ==
  /\ IsFiniteSet(Children) /\ ParentOf \in [Children -> Parents]
  /\ FirstRow \in [Children -> Hosts \cup {"none"}] /\ Capacity \in Nat

VARIABLES
  row,        \* the Manager: the host of each child, or "none"
  line,       \* the parent's connection: [up, heard, notice]
  made,       \* controllers: [child, host, loop, up, tell]
  kids,       \* subscribed_children: a controller for each child, or 0
  described,  \* cached_child_transforms_by_uid
  job,        \* the parent's thread: a reconcile [at, todo, next, stop, start]
              \* or an answer [at, child, up]
  queue,      \* _moving_object_queue: the statuses in it
  shown,      \* the last status heard of each child
  budget,     \* [changes, failures, losses] so far
  missed,     \* history: the rows were changed unheard or read with a failure
  amiss       \* history: the children whose last word was lost or overtaken

childVars == <<row, line, made, kids, described, job, queue, shown, budget, missed, amiss>>

NoJob == [at |-> "idle"]
Down == [up |-> FALSE, heard |-> FALSE, notice |-> FALSE]
NoChild == [c \in Children |-> 0]
Controllers == DOMAIN made

ChildrenInit ==
  /\ row = FirstRow /\ line = Down
  /\ made = <<>> /\ kids = NoChild /\ described = {} /\ job = NoJob
  /\ queue = <<>> /\ shown = [c \in Children |-> "none"]
  /\ budget = [changes |-> 0, failures |-> 0, losses |-> 0] /\ missed = FALSE /\ amiss = {}

---------------------------------------------------------------------------
(* The rows change; the notice is lost when nobody is subscribed to it.    *)
ChangeRow(c, h) ==
  /\ budget.changes < MaxChanges /\ h # row[c]
  /\ row' = [row EXCEPT ![c] = h]
  /\ line' = [line EXCEPT !.notice = line.notice \/ line.heard]
  /\ missed' = (missed \/ ~line.heard)
  /\ budget' = [budget EXCEPT !.changes = @ + 1]
  /\ UNCHANGED <<made, kids, described, job, queue, amiss, shown>>

ConnectionLost ==
  /\ line.up /\ job = NoJob /\ budget.losses < MaxLosses
  /\ line' = Down
  /\ missed' = (missed \/ line.notice)
  /\ budget' = [budget EXCEPT !.losses = @ + 1]
  /\ UNCHANGED <<row, made, kids, described, job, queue, amiss, shown>>

Begin == job' = [at |-> "read", todo |-> Parents, next |-> NoChild, stop |-> {}, start |-> {}]

(* onConnect, which subscribes to the notices at its end.                  *)
OnConnect ==
  /\ ~line.up /\ job = NoJob /\ Begin
  /\ line' = [line EXCEPT !.up = TRUE] /\ missed' = FALSE
  /\ UNCHANGED <<row, made, kids, described, queue, amiss, shown, budget>>

(* handleDatabaseMessage                                                   *)
OnNotice ==
  /\ line.notice /\ job = NoJob /\ Begin
  /\ line' = [line EXCEPT !.notice = FALSE] /\ missed' = FALSE
  /\ UNCHANGED <<row, made, kids, described, queue, amiss, shown, budget>>

---------------------------------------------------------------------------
ChildrenOf(works) == {works[i].child : i \in DOMAIN works}

(* enqueueRemoteChildStatus: a full queue drops what comes.                *)
Put(works) ==
  LET all == queue \o works
      kept == IF Len(all) < Capacity THEN Len(all) ELSE Capacity
  IN /\ queue' = SubSeq(all, 1, kept)
     /\ amiss' = (amiss \ ChildrenOf(works)) \cup ChildrenOf(SubSeq(all, kept + 1, Len(all)))

HasWork(c, works) == c \in ChildrenOf(works)

Wanted(s) == {c \in Children : ParentOf[c] = s /\ row[c] # "none"}

Reused(c) == kids[c] # 0 /\ made[kids[c]].host = row[c]
Changed(s) == {c \in Wanted(s) : ~Reused(c)}

(* The constructor makes the client, which a bad host prevents.            *)
NewController(c) == [child |-> c, host |-> row[c], loop |-> FALSE, up |-> FALSE, tell |-> "none"]
HasClient(k) == made[k].host \notin BadHosts

Fresh(s) == SetToSeq(Changed(s))
NewControllers(s) == [i \in DOMAIN Fresh(s) |-> NewController(Fresh(s)[i])]
Place(s, c) == Len(made) + CHOOSE i \in DOMAIN Fresh(s) : Fresh(s)[i] = c
Errors(C) == LET cs == SetToSeq(C) IN [i \in DOMAIN cs |-> [child |-> cs[i], status |-> "error"]]

(* The children of one scene: those with the same connection are kept, the *)
(* others get a controller, which replaces the one they had.  One that can *)
(* not connect says so, and its loop tries again.                          *)
ReadScene(s, refused) ==
  /\ job.at = "read" /\ s \in job.todo
  /\ {c \in Changed(s) : row[c] \in BadHosts} \subseteq refused
  /\ made' = made \o NewControllers(s)
  /\ job' = [job EXCEPT
       !.todo = @ \ {s},
       !.next = [c \in Children |-> IF c \notin Wanted(s) THEN @[c]
                                    ELSE IF Reused(c) THEN kids[c] ELSE Place(s, c)],
       !.start = @ \cup {Place(s, c) : c \in Changed(s)},
       !.stop = @ \cup ({kids[c] : c \in Changed(s)} \ {0})]
  /\ described' = described \cup Wanted(s)
  /\ Put(Errors(Changed(s) \cap refused))
  /\ UNCHANGED <<row, line, kids, shown, budget, missed>>

(* An answer without results: the scene counts as one without children.    *)
ReadFails(s) ==
  /\ job.at = "read" /\ s \in job.todo /\ budget.failures < MaxFailures
  /\ job' = [job EXCEPT !.todo = @ \ {s}]
  /\ budget' = [budget EXCEPT !.failures = @ + 1] /\ missed' = TRUE
  /\ UNCHANGED <<row, line, made, kids, described, queue, amiss, shown>>

(* No answer: the exception ends the update, whose controllers are let go. *)
ReadRaises ==
  /\ job.at = "read" /\ job.todo # {} /\ line.heard /\ budget.failures < MaxFailures
  /\ job' = NoJob
  /\ budget' = [budget EXCEPT !.failures = @ + 1] /\ missed' = TRUE
  /\ UNCHANGED <<row, line, made, kids, described, queue, amiss, shown>>

Removed == {c \in Children : kids[c] # 0 /\ job.next[c] = 0}

(* The new collection holds before any loop ends or starts.                *)
Commit ==
  /\ job.at = "read" /\ job.todo = {}
  /\ kids' = job.next /\ described' = described \ Removed
  /\ job' = [job EXCEPT !.at = "stop", !.stop = @ \cup {kids[c] : c \in Removed}]
  /\ UNCHANGED <<row, line, made, queue, amiss, shown, budget, missed>>

(* A controller without a client raises: the update ends here, and when it *)
(* came from onConnect the process does, to be started again.              *)
Raise ==
  /\ job' = NoJob
  /\ IF line.heard THEN UNCHANGED <<line, made, kids, described, queue>>
     ELSE line' = Down /\ made' = <<>> /\ kids' = NoChild /\ described' = {} /\ queue' = <<>>
  /\ UNCHANGED amiss

(* Disconnected and joined, its callback done.                             *)
StopChild(k) ==
  /\ job.at = "stop" /\ k \in job.stop /\ made[k].tell = "none"
  /\ IF HasClient(k)
     THEN /\ made' = [made EXCEPT ![k].loop = FALSE, ![k].up = FALSE]
          /\ job' = [job EXCEPT !.stop = @ \ {k}]
          /\ Put(IF made[k].up THEN <<[child |-> made[k].child, status |-> "disconnected"]>>
                               ELSE <<>>)
          /\ UNCHANGED <<line, kids, described>>
     ELSE Raise
  /\ UNCHANGED <<row, shown, budget, missed>>

(* Mutant of Startable. *)
StartableFirst(k) == job.at = "stop" /\ k \in job.start

(* New loops start when the old ones have ended.                           *)
Startable(k) == job.at = "stop" /\ job.stop = {} /\ k \in job.start

StartChild(k) ==
  /\ Startable(k)
  /\ IF HasClient(k)
     THEN /\ made' = [made EXCEPT ![k].loop = TRUE]
          /\ job' = [job EXCEPT !.start = @ \ {k}]
          /\ UNCHANGED <<line, kids, described, queue, amiss>>
     ELSE Raise
  /\ UNCHANGED <<row, shown, budget, missed>>

Finish ==
  /\ job.at = "stop" /\ job.stop = {} /\ job.start = {}
  /\ job' = NoJob /\ line' = [line EXCEPT !.heard = TRUE]
  /\ UNCHANGED <<row, made, kids, described, queue, amiss, shown, budget, missed>>

---------------------------------------------------------------------------
Word(up) == IF up THEN "connected" ELSE "disconnected"

(* Mutant of Flagged. *)
FlaggedForGood(k, up) ==
  [made EXCEPT ![k].up = TRUE, ![k].tell = Word(up)]

(* The flag changes first, then the status is queued.                      *)
Flagged(k, up) ==
  [made EXCEPT ![k].up = up, ![k].tell = Word(up)]

(* onChildConnect, onChildDisconnect                                       *)
ChildTurns(k, up) ==
  /\ made[k].loop /\ made[k].up # up /\ made[k].tell = "none"
  /\ made' = Flagged(k, up)
  /\ UNCHANGED <<row, line, kids, described, job, queue, amiss, shown, budget, missed>>

ChildTells(k) ==
  /\ made[k].tell # "none"
  /\ Put(<<[child |-> made[k].child, status |-> made[k].tell]>>)
  /\ made' = [made EXCEPT ![k].tell = "none"]
  /\ UNCHANGED <<row, line, kids, described, job, shown, budget, missed>>

(* A publish of QoS 0 is lost without a connection, and may be with one    *)
(* that is about to break.                                                 *)
Publish(c, status, heard) ==
  /\ heard => line.up
  /\ shown' = IF heard THEN [shown EXCEPT ![c] = status] ELSE shown

(* _publishRemoteChildStatus by the worker                                 *)
Work ==
  /\ queue # <<>> /\ queue' = Tail(queue)
  /\ LET c == Head(queue).child
     IN \E heard \in BOOLEAN :
          /\ Publish(c, Head(queue).status, heard)
          /\ amiss' = IF heard \/ HasWork(c, Tail(queue)) THEN amiss ELSE amiss \cup {c}
  /\ UNCHANGED <<row, line, made, kids, described, job, budget, missed>>

(* publishStatus: the parent's thread reads the flag ...                   *)
AskStatus(c) ==
  /\ job = NoJob /\ line.up /\ kids[c] # 0
  /\ job' = [at |-> "answer", child |-> c, up |-> made[kids[c]].up]
  /\ UNCHANGED <<row, line, made, kids, described, queue, shown, budget, missed, amiss>>

(* ... and then publishes what it read, past the queue.                    *)
Answer ==
  /\ job.at = "answer" /\ job' = NoJob
  /\ LET c == job.child
     IN \E heard \in BOOLEAN :
          /\ Publish(c, Word(job.up), heard)
          /\ amiss' = IF ~heard \/ HasWork(c, queue) THEN amiss
                      ELSE IF made[kids[c]].up = job.up THEN amiss \ {c} ELSE amiss \cup {c}
  /\ UNCHANGED <<row, line, made, kids, described, queue, budget, missed>>

(* The messages of the children share the queue with the statuses; they    *)
(* are left out, and a smaller capacity stands for the room they take.     *)
ChildrenNext ==
  \/ \E c \in Children :
       AskStatus(c) \/ \E h \in Hosts \cup {"none"} : ChangeRow(c, h)
  \/ ConnectionLost \/ OnConnect \/ OnNotice
  \/ \E s \in Parents : ReadFails(s) \/ \E refused \in SUBSET Wanted(s) : ReadScene(s, refused)
  \/ ReadRaises \/ Commit \/ Finish \/ Work \/ Answer
  \/ \E k \in Controllers :
       StopChild(k) \/ StartChild(k) \/ ChildTells(k) \/ \E up \in BOOLEAN : ChildTurns(k, up)

(* Every thread goes on; rows, connections and failures are as they are.   *)
(* disconnect keeps a loop from connecting again, so ending it succeeds    *)
(* however often it did before.  Messages are handled in the order they    *)
(* come, so questions do not keep a notice waiting.                        *)
ChildrenFairness ==
  /\ WF_childVars(OnConnect) /\ SF_childVars(OnNotice)
  /\ WF_childVars(Work) /\ WF_childVars(Answer)
  /\ WF_childVars(\E s \in Parents, refused \in SUBSET Children : ReadScene(s, refused))
  /\ WF_childVars(Commit) /\ WF_childVars(Finish)
  /\ SF_childVars(\E k \in Controllers : StopChild(k))
  /\ WF_childVars(\E k \in Controllers : StartChild(k))
  /\ WF_childVars(\E k \in Controllers : ChildTells(k))

ChildrenSpec == ChildrenInit /\ [][ChildrenNext]_childVars /\ ChildrenFairness

---------------------------------------------------------------------------
Running(k) == made[k].loop

(* A child never has two network loops, which would deliver its objects    *)
(* twice, and but for the time in which loops are exchanged every loop     *)
(* belongs to the controller that the next update can end; a child whose   *)
(* loop runs has its transform.                                            *)
LoopsOwned ==
  \A k \in Controllers : Running(k) =>
    /\ \A j \in Controllers : Running(j) /\ made[j].child = made[k].child => j = k
    /\ job.at # "stop" => kids[made[k].child] = k /\ made[k].child \in described

(* What was last heard of a child is the truth once its work is done,      *)
(* though answers overtake the queue and a controller may have been        *)
(* replaced, unless that last word was lost (by a full queue or on the     *)
(* way) or is an answer that was out of date when it was published; and    *)
(* then the next status queued, or question answered in time, sets it      *)
(* right.                                                                  *)
StatusSettles ==
  \A c \in Children \ amiss :
    job = NoJob /\ kids[c] # 0 /\ made[kids[c]].tell = "none" /\ ~HasWork(c, queue) =>
      /\ shown[c] = "connected" => made[kids[c]].up
      /\ shown[c] = "disconnected" => ~made[kids[c]].up

InLine ==
  \A c \in Children :
    IF row[c] = "none" THEN kids[c] = 0
    ELSE kids[c] # 0 /\ made[kids[c]].host = row[c] /\ Running(kids[c])

(* If every change was heard of and every request answered, the children   *)
(* of the rows are connected in the end, and no others.                    *)
ChildrenInLine == missed \/ InLine

=============================================================================
