---------------------------- MODULE MqttSession ----------------------------
(***************************************************************************)
(* The tracker service's MQTT session from start to restart: the scenes    *)
(* are loaded, then the client connects and the topics are subscribed by   *)
(* the main thread, and again by the library's thread whenever the         *)
(* connection is (re)made; a database update makes the service stop and    *)
(* its container start it again.  The library calls back on one thread of  *)
(* its own; a guard counts the callbacks so that disconnect() can wait.    *)
(* The session is clean: what is published while there is no subscription  *)
(* is lost.  Readiness (subscribed_) is left out.                          *)
(***************************************************************************)
EXTENDS Naturals, Sequences

CONSTANTS Topics,     \* "database" and the cameras' topics
          MaxUpdates, \* bound on changes of the database
          MaxDrops    \* bound on lost connections and failed starts

VARIABLES db,        \* version of the Manager's scenes
          config,    \* version the service has loaded
          link,      \* connection to the broker
          subs,      \* the session's subscriptions at the broker
          events,    \* what the library has yet to call back about
          connected, toSubscribe, \* connected_, pending_subscriptions_
          handler,   \* the message callback: set or null
          stop, inFlight,     \* stop_requested_, callbacks_in_flight_
          enabled,   \* the library may call back
          cb,        \* the callback under way: step, event, shouldSkip()
          main, topicsLeft, \* the main thread's step, the topics it has left
          restart,   \* g_shutdown_requested
          handled,   \* version whose update was handled last
          drops
sessionVars == <<db, config, link, subs, events, connected, toSubscribe, handler, stop, inFlight,
          enabled, cb, main, topicsLeft, restart, handled, drops>>
broker == <<db, link, subs, events, drops>>
client == <<connected, toSubscribe, handler, stop, inFlight, enabled>>

NoCallback == [pc |-> "none", event |-> "none", skip |-> FALSE]

SessionInit ==
  /\ db = 0 /\ config = 0 /\ link = "off" /\ subs = {} /\ events = <<>>
  /\ connected = FALSE /\ toSubscribe = {} /\ handler = "null"
  /\ stop = FALSE /\ inFlight = 0 /\ enabled = TRUE
  /\ cb = NoCallback /\ main = "load" /\ topicsLeft = {} /\ restart = FALSE
  /\ handled = 0 /\ drops = 0

(***************************************************************************)
(* The Manager and the broker                                              *)
(***************************************************************************)
Update ==
  /\ db < MaxUpdates /\ db' = db + 1
  /\ events' = IF "database" \in subs THEN Append(events, "update") ELSE events
  /\ UNCHANGED <<config, link, subs, client, cb, main, topicsLeft, restart, handled, drops>>

LinkUp ==
  /\ link = "down" /\ link' = "up"
  /\ events' = Append(events, "connected")
  /\ UNCHANGED <<db, subs, config, client, cb, main, topicsLeft, restart, handled, drops>>

LinkLost ==
  /\ link = "up" /\ drops < MaxDrops /\ drops' = drops + 1
  /\ link' = "down" /\ subs' = {} /\ events' = Append(events, "lost")
  /\ UNCHANGED <<db, config, client, cb, main, topicsLeft, restart, handled>>

(***************************************************************************)
(* The library's thread                                                    *)
(***************************************************************************)
Callback(from, to) == cb.pc = from /\ cb' = to

(* CallbackGuard: the flag is read before the callback is counted.        *)
Enter ==
  /\ enabled /\ events # <<>>
  /\ Callback("none", [pc |-> "count", event |-> Head(events), skip |-> stop])
  /\ events' = Tail(events)
  /\ UNCHANGED <<db, link, subs, drops, config, client, main, topicsLeft, restart, handled>>

Count ==
  /\ Callback("count", [cb EXCEPT !.pc = IF cb.skip THEN "leave" ELSE "body"])
  /\ inFlight' = inFlight + 1
  /\ UNCHANGED <<broker, config, connected, toSubscribe, handler, stop, enabled, main, topicsLeft,
                 restart, handled>>

(* connected() and connection_lost() up to the flag.                       *)
SetConnected ==
  /\ cb.event \in {"connected", "lost"}
  /\ Callback("body", [cb EXCEPT !.pc = IF cb.event = "lost" THEN "leave" ELSE "resubscribe"])
  /\ connected' = (cb.event = "connected")
  /\ UNCHANGED <<broker, config, toSubscribe, handler, stop, inFlight, enabled, main, topicsLeft,
                 restart, handled>>

Resubscribed == IF link = "up" THEN subs \cup toSubscribe ELSE subs

Resubscribe ==
  /\ Callback("resubscribe", [cb EXCEPT !.pc = "leave"])
  /\ subs' = Resubscribed
  /\ UNCHANGED <<db, link, events, drops, config, client, main, topicsLeft, restart, handled>>

(* message_arrived holds the callback's mutex while the handler runs.     *)
Arrive ==
  /\ cb.event = "update"
  /\ Callback("body", [cb EXCEPT !.pc = IF handler = "set" THEN "handling" ELSE "leave"])
  /\ UNCHANGED <<broker, config, client, main, topicsLeft, restart, handled>>

HandleUpdate ==
  /\ Callback("handling", [cb EXCEPT !.pc = "leave"])
  /\ restart' = TRUE /\ handled' = db
  /\ UNCHANGED <<broker, config, client, main, topicsLeft>>

Leave ==
  /\ Callback("leave", NoCallback) /\ inFlight' = inFlight - 1
  /\ UNCHANGED <<broker, config, connected, toSubscribe, handler, stop, enabled, main, topicsLeft,
                 restart, handled>>

(***************************************************************************)
(* The main thread                                                         *)
(***************************************************************************)
LoadScenes ==
  /\ main = "load" /\ main' = "connect" /\ config' = db
  /\ UNCHANGED <<broker, client, cb, topicsLeft, restart, handled>>

(* connect() only starts the attempt.                                      *)
ConnectClient ==
  /\ main = "connect" /\ main' = "insert" /\ topicsLeft' = Topics
  /\ link' = "down" /\ handler' = "set"
  /\ UNCHANGED <<db, subs, events, drops, config, connected, toSubscribe, stop, inFlight, enabled,
                 cb, restart, handled>>

(* The broker cannot be reached: the process exits and is started again.  *)
ConnectFails ==
  /\ main = "connect" /\ drops < MaxDrops /\ drops' = drops + 1 /\ main' = "load"
  /\ UNCHANGED <<db, link, subs, events, config, client, cb, topicsLeft, restart, handled>>

Insert ==
  /\ main = "insert" /\ topicsLeft # {} /\ main' = "send"
  /\ \E t \in topicsLeft : toSubscribe' = toSubscribe \cup {t}
  /\ UNCHANGED <<broker, config, connected, handler, stop, inFlight, enabled, cb, topicsLeft,
                 restart, handled>>

(* Deferred while not connected; a connection that is lost but not yet     *)
(* known to be makes the library throw, which is as good.                  *)
Send ==
  /\ main = "send" /\ main' = "insert"
  /\ topicsLeft' = topicsLeft \ toSubscribe
  /\ subs' = IF connected /\ link = "up" THEN subs \cup (toSubscribe \cap topicsLeft) ELSE subs
  /\ UNCHANGED <<db, link, events, drops, config, client, cb, restart, handled>>

Run ==
  /\ main = "insert" /\ topicsLeft = {} /\ main' = "running"
  /\ UNCHANGED <<broker, config, client, cb, topicsLeft, restart, handled>>

(* MessageHandler::stop: the topics, then the callback, which the mutex of *)
(* a callback under way delays; then the handler is destroyed.             *)
Unsubscribe ==
  /\ main = "running" /\ restart /\ main' = "unset"
  /\ toSubscribe' = {} /\ subs' = IF connected THEN {} ELSE subs
  /\ UNCHANGED <<db, link, events, drops, config, connected, handler, stop, inFlight, enabled,
                 cb, topicsLeft, restart, handled>>

\* Mutant of MutexFree: the callback is called without the mutex.
MutexFreeAlways == TRUE

MutexFree == cb.pc # "handling"

UnsetCallback ==
  /\ main = "unset" /\ MutexFree /\ main' = "disconnect"
  /\ handler' = "null"
  /\ UNCHANGED <<broker, config, connected, toSubscribe, stop, inFlight, enabled, cb, topicsLeft,
                 restart, handled>>

Disconnect ==
  /\ main = "disconnect" /\ main' = "drain" /\ stop' = TRUE
  /\ UNCHANGED <<broker, config, connected, toSubscribe, handler, inFlight, enabled, cb, topicsLeft,
                 restart, handled>>

Drained ==
  /\ main = "drain" /\ inFlight = 0 /\ main' = "gone"
  /\ enabled' = FALSE /\ connected' = FALSE
  /\ link' = "off" /\ subs' = {} /\ events' = <<>>
  /\ UNCHANGED <<db, drops, config, toSubscribe, handler, stop, inFlight, cb, topicsLeft, restart, handled>>

(* EXIT_SCENE_UPDATE_RESTART is not 0, so the container starts again.      *)
StartedAgain == restart

Exit ==
  /\ main = "gone" /\ StartedAgain /\ main' = "load"
  /\ connected' = FALSE /\ toSubscribe' = {} /\ handler' = "null" /\ stop' = FALSE
  /\ inFlight' = 0 /\ enabled' = TRUE /\ cb' = NoCallback /\ topicsLeft' = {} /\ restart' = FALSE
  /\ UNCHANGED <<broker, config, handled>>

Library == \/ Enter \/ Count \/ SetConnected \/ Resubscribe \/ Arrive \/ HandleUpdate \/ Leave
Main == \/ LoadScenes \/ ConnectClient \/ Insert \/ Send \/ Run \/ Unsubscribe \/ UnsetCallback
        \/ Disconnect \/ Drained \/ Exit

SessionNext == Update \/ LinkUp \/ LinkLost \/ ConnectFails \/ Library \/ Main

SessionFairness == WF_sessionVars(LinkUp) /\ WF_sessionVars(Library) /\ WF_sessionVars(Main)

SessionSpec == SessionInit /\ [][SessionNext]_sessionVars /\ SessionFairness

(***************************************************************************)
(* Properties.                                                             *)
(***************************************************************************)
(* Whichever of the main thread and a (re)connection comes first, and also *)
(* when the connection is lost in between, every topic ends up subscribed  *)
(* (mqtt_client.cpp:187-207, 265-287).                                     *)
AllSubscribed == main = "running" /\ subs = Topics

(* No message reaches the handler once it is destroyed (main.cpp:222-223,  *)
(* mqtt_client.cpp:304).                                                   *)
HandlerOutlivesCalls ==
  cb.pc = "handling" => main \in {"insert", "send", "running", "unset"}

(* An update that is handled leads to a service with scenes at least as    *)
(* new (main.cpp:165-172).                                                 *)
UpdateServed == config >= handled

(* Once the database stays as it is, the service has loaded it.           *)
ConfigConverges == <>[](config = db)
=============================================================================
