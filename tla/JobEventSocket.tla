-------------------------- MODULE JobEventSocket --------------------------
(***************************************************************************)
(* The event hub behind its two doors: the handler job_events_websocket    *)
(* (main.py), which drains subscribe_from into a WebSocket, and the REST   *)
(* replay list_job_events; and a client that keeps the largest event id it *)
(* received and passes it as after_event_id when it comes back.            *)
(*                                                                         *)
(* A connection can fail at any moment. Frames then vanish with it; the    *)
(* server learns of it only later ("reset"), and the handler only when it  *)
(* sends, since it never reads from the socket.                            *)
(***************************************************************************)
EXTENDS JobEventHub

CONSTANTS
  Clients,
  Terminal,     \* COMPLETED, PARTIAL_SUCCESS, FAILED
  MaxDrops,     \* bound of the model: connections that fail
  None

ASSUME SocketAssumption ==
  /\ Terminal \in SUBSET Statuses
  /\ MaxDrops \in Nat
  /\ None \notin Sessions

VARIABLES
  \* server
  handler,      \* handler[s]: "none", "accepted", "ready", "next" or "send"
  after,        \* the after_event_id the session was opened with
  link,         \* link[s]: "up", "down" (unnoticed by the server) or "reset"
  wire,         \* progress frames sent and not yet received
  closed,       \* the server has sent the close frame (1000)
  drops,
  \* client
  watched,      \* the job each client is interested in
  session_of,   \* its connection, or None
  cursor,       \* the largest event id it has received
  received,     \* the events it has received, in order
  \* history
  missed        \* ids that were no longer retained when the client asked

socketVars == <<handler, after, link, wire, closed, drops, watched, session_of,
                cursor, received, missed>>
allVars == <<vars, socketVars>>
hubStep == <<after, link, wire, closed, drops, watched, session_of, cursor, received>>

SocketTypeOK ==
  /\ TypeOK
  /\ handler \in [Sessions -> {"none", "accepted", "ready", "next", "send"}]
  /\ after \in [Sessions -> Cursors]
  /\ link \in [Sessions -> {"up", "down", "reset"}]
  /\ wire \in [Sessions -> Seq(Events)]
  /\ closed \in [Sessions -> BOOLEAN]
  /\ drops \in 0..MaxDrops
  /\ watched \in [Clients -> Jobs]
  /\ session_of \in [Clients -> Sessions \cup {None}]
  /\ cursor \in [Clients -> Cursors]
  /\ received \in [Clients -> Seq(Events)]
  /\ missed \in [Clients -> SUBSET EventIds]

SocketInit ==
  /\ Init
  /\ handler = [s \in Sessions |-> "none"]
  /\ after = [s \in Sessions |-> 0]
  /\ link = [s \in Sessions |-> "reset"]
  /\ wire = [s \in Sessions |-> <<>>]
  /\ closed = [s \in Sessions |-> FALSE]
  /\ drops = 0
  /\ watched \in [Clients -> Jobs]
  /\ session_of = [c \in Clients |-> None]
  /\ cursor = [c \in Clients |-> 0]
  /\ received = [c \in Clients |-> <<>>]
  /\ missed = [c \in Clients |-> {}]

IdsOf(seq) == {seq[i].id : i \in 1..Len(seq)}
Finished(seq) == \E i \in 1..Len(seq) : seq[i].status \in Terminal

\* Ids of j above a cursor that a snapshot taken now cannot contain.
Evicted(j, from) == {id \in IdsOf(log[j]) \ IdsOf(events[j]) : id > from}
-----------------------------------------------------------------------------
\* Whoever runs the job publishes its progress and then one terminal event.
PublishProgress(j, st) ==
  /\ ~ Finished(log[j])
  /\ Publish(j, st)
  /\ UNCHANGED socketVars

\* Mutant: the client asks for what follows the event after the last it received.
ConnectPastCursor(c, s) ==
  /\ session_of[c] = None /\ ~ Finished(received[c])
  /\ handler[s] = "none" /\ pc[s] = "idle" /\ \A d \in Clients : session_of[d] # s
  /\ session_of' = [session_of EXCEPT ![c] = s]
  /\ handler' = [handler EXCEPT ![s] = "accepted"]
  /\ after' = [after EXCEPT ![s] = cursor[c] + 1]
  /\ job' = [job EXCEPT ![s] = watched[c]]
  /\ link' = [link EXCEPT ![s] = "up"]
  /\ wire' = [wire EXCEPT ![s] = <<>>]
  /\ closed' = [closed EXCEPT ![s] = FALSE]
  /\ UNCHANGED <<nextId, events, subscribers, pc, replay, queue, log, first, yielded,
                 drops, watched, cursor, received, missed>>

\* The client opens a connection; the handler admits and accepts it.
Connect(c, s) ==
  /\ session_of[c] = None /\ ~ Finished(received[c])
  /\ handler[s] = "none" /\ pc[s] = "idle" /\ \A d \in Clients : session_of[d] # s
  /\ session_of' = [session_of EXCEPT ![c] = s]
  /\ handler' = [handler EXCEPT ![s] = "accepted"]
  /\ after' = [after EXCEPT ![s] = cursor[c]]
  /\ job' = [job EXCEPT ![s] = watched[c]]
  /\ link' = [link EXCEPT ![s] = "up"]
  /\ wire' = [wire EXCEPT ![s] = <<>>]
  /\ closed' = [closed EXCEPT ![s] = FALSE]
  /\ UNCHANGED <<nextId, events, subscribers, pc, replay, queue, log, first, yielded,
                 drops, watched, cursor, received, missed>>

\* send_json({"type": "ready", ...}): outside the try, so on a dead connection
\* the handler ends with the exception.
HandlerReady(s) ==
  /\ handler[s] = "accepted"
  /\ handler' = [handler EXCEPT ![s] = IF link[s] = "reset" THEN "none" ELSE "ready"]
  /\ UNCHANGED <<vars, hubStep, missed>>

\* Mutant: the handler follows from the newest event instead of the cursor.
HandlerSubscribeLatest(s) ==
  /\ handler[s] = "ready"
  /\ Subscribe(s, job[s], nextId)
  /\ handler' = [handler EXCEPT ![s] = "next"]
  /\ missed' = [c \in Clients |-> IF session_of[c] = s
                                  THEN missed[c] \cup Evicted(job[s], after[s])
                                  ELSE missed[c]]
  /\ UNCHANGED hubStep

HandlerSubscribe(s) ==
  /\ handler[s] = "ready"
  /\ Subscribe(s, job[s], after[s])
  /\ handler' = [handler EXCEPT ![s] = "next"]
  /\ missed' = [c \in Clients |-> IF session_of[c] = s
                                  THEN missed[c] \cup Evicted(job[s], after[s])
                                  ELSE missed[c]]
  /\ UNCHANGED hubStep

\* Mutant: replay only, the live queue is not drained.
HandlerNextReplayOnly(s) ==
  /\ handler[s] = "next"
  /\ YieldReplay(s)
  /\ handler' = [handler EXCEPT ![s] = "send"]
  /\ UNCHANGED <<hubStep, missed>>

\* async for: the generator yields, the handler holds the event.
HandlerNext(s) ==
  /\ handler[s] = "next"
  /\ YieldReplay(s) \/ YieldLive(s)
  /\ handler' = [handler EXCEPT ![s] = "send"]
  /\ UNCHANGED <<hubStep, missed>>

Held(s) == yielded[s][Len(yielded[s])]

\* Mutant: the terminal event closes the socket before it is sent.
HandlerSendClosesFirst(s) ==
  /\ handler[s] = "send" /\ link[s] # "reset"
  /\ IF Held(s).status \in Terminal
     THEN /\ closed' = [closed EXCEPT ![s] = TRUE]
          /\ handler' = [handler EXCEPT ![s] = "none"]
          /\ Abandon(s)
          /\ UNCHANGED wire
     ELSE /\ handler' = [handler EXCEPT ![s] = "next"]
          /\ wire' = [wire EXCEPT ![s] = IF link[s] = "up" THEN Append(@, Held(s)) ELSE @]
          /\ UNCHANGED <<vars, closed>>
  /\ UNCHANGED <<after, link, drops, watched, session_of, cursor, received, missed>>

\* Mutant: no return after the terminal event.
HandlerSendStays(s) ==
  /\ handler[s] = "send" /\ link[s] # "reset"
  /\ wire' = [wire EXCEPT ![s] = IF link[s] = "up" THEN Append(@, Held(s)) ELSE @]
  /\ handler' = [handler EXCEPT ![s] = "next"]
  /\ UNCHANGED <<vars, closed>>
  /\ UNCHANGED <<after, link, drops, watched, session_of, cursor, received, missed>>

\* await send_json(progress) succeeds: the frame travels, or is lost when the
\* connection is already gone. A terminal event is followed by close and return.
HandlerSend(s) ==
  /\ handler[s] = "send" /\ link[s] # "reset"
  /\ wire' = [wire EXCEPT ![s] = IF link[s] = "up" THEN Append(@, Held(s)) ELSE @]
  /\ IF Held(s).status \in Terminal
     THEN /\ closed' = [closed EXCEPT ![s] = TRUE]
          /\ handler' = [handler EXCEPT ![s] = "none"]
          /\ Abandon(s)
     ELSE /\ handler' = [handler EXCEPT ![s] = "next"]
          /\ UNCHANGED <<vars, closed>>
  /\ UNCHANGED <<after, link, drops, watched, session_of, cursor, received, missed>>

\* send_json raises WebSocketDisconnect: return.
HandlerSendFails(s) ==
  /\ handler[s] = "send" /\ link[s] = "reset"
  /\ handler' = [handler EXCEPT ![s] = "none"]
  /\ Abandon(s)
  /\ UNCHANGED <<hubStep, missed>>

\* The event loop closes the generator the handler left.
HandlerCleanup(s) ==
  /\ Unregister(s)
  /\ UNCHANGED socketVars
-----------------------------------------------------------------------------
\* The connection of c fails: nothing in flight arrives.
Drop(c) ==
  /\ session_of[c] # None /\ drops < MaxDrops
  /\ drops' = drops + 1
  /\ link' = [link EXCEPT ![session_of[c]] = "down"]
  /\ wire' = [wire EXCEPT ![session_of[c]] = <<>>]
  /\ session_of' = [session_of EXCEPT ![c] = None]
  /\ UNCHANGED <<vars, handler, after, closed, watched, cursor, received, missed>>

\* The server's transport notices (keepalive timeout, reset).
Notice(s) ==
  /\ link[s] = "down"
  /\ link' = [link EXCEPT ![s] = "reset"]
  /\ UNCHANGED <<vars, handler, after, wire, closed, drops, watched, session_of,
                 cursor, received, missed>>

ClientReceive(c) ==
  /\ session_of[c] # None
  /\ LET s == session_of[c]
     IN  /\ wire[s] # <<>>
         /\ received' = [received EXCEPT ![c] = Append(@, Head(wire[s]))]
         /\ cursor' = [cursor EXCEPT ![c] = Head(wire[s]).id]
         /\ wire' = [wire EXCEPT ![s] = Tail(@)]
  /\ UNCHANGED <<vars, handler, after, link, closed, drops, watched, session_of, missed>>

\* The close frame arrives after the progress frames.
ClientClosed(c) ==
  /\ session_of[c] # None
  /\ closed[session_of[c]] /\ wire[session_of[c]] = <<>>
  /\ session_of' = [session_of EXCEPT ![c] = None]
  /\ link' = [link EXCEPT ![session_of[c]] = "reset"]
  /\ UNCHANGED <<vars, handler, after, wire, closed, drops, watched, cursor, received, missed>>

\* Mutant: the client does not keep the largest id of a polled answer.
PollKeepsCursor(c) ==
  /\ session_of[c] = None /\ ~ Finished(received[c])
  /\ LET answer == After(events[watched[c]], cursor[c])
     IN  /\ answer # <<>>
         /\ received' = [received EXCEPT ![c] = @ \o answer]
  /\ missed' = [missed EXCEPT ![c] = @ \cup Evicted(watched[c], cursor[c])]
  /\ UNCHANGED <<vars, handler, after, link, wire, closed, drops, watched, session_of, cursor>>

\* GET /jobs/{job_id}/events?after_event_id=cursor while not connected.
Poll(c) ==
  /\ session_of[c] = None /\ ~ Finished(received[c])
  /\ LET answer == After(events[watched[c]], cursor[c])
     IN  /\ answer # <<>>
         /\ received' = [received EXCEPT ![c] = @ \o answer]
         /\ cursor' = [cursor EXCEPT ![c] = answer[Len(answer)].id]
  /\ missed' = [missed EXCEPT ![c] = @ \cup Evicted(watched[c], cursor[c])]
  /\ UNCHANGED <<vars, handler, after, link, wire, closed, drops, watched, session_of>>
-----------------------------------------------------------------------------
SocketNext ==
  \/ \E j \in Jobs, st \in Statuses : PublishProgress(j, st)
  \/ \E c \in Clients, s \in Sessions : Connect(c, s)
  \/ \E s \in Sessions : \/ HandlerReady(s) \/ HandlerSubscribe(s) \/ HandlerNext(s)
                         \/ HandlerSend(s) \/ HandlerSendFails(s) \/ HandlerCleanup(s)
                         \/ Notice(s)
  \/ \E c \in Clients : Drop(c) \/ ClientReceive(c) \/ ClientClosed(c) \/ Poll(c)

SocketSpec == SocketInit /\ [][SocketNext]_allVars

Handler(s) ==
  HandlerReady(s) \/ HandlerSubscribe(s) \/ HandlerNext(s) \/ HandlerSend(s) \/ HandlerSendFails(s)

\* The event loop runs every ready task, a dead transport is noticed, a live
\* connection delivers, and the client reconnects as the API document asks.
\* Nothing is assumed of publishers, polls and failures.
SocketFairSpec ==
  /\ SocketSpec
  /\ \A s \in Sessions : /\ WF_allVars(Handler(s))
                         /\ WF_allVars(HandlerCleanup(s))
                         /\ WF_allVars(Notice(s))
  /\ \A c \in Clients : /\ WF_allVars(ClientReceive(c))
                        /\ WF_allVars(ClientClosed(c))
                        /\ WF_allVars(\E s \in Sessions : Connect(c, s))
-----------------------------------------------------------------------------
(* Across connections, failures, reconnects and polls a client receives events of
   its own job in id order, each at most once. *)
ReceivedOnceInOrder ==
  \A c \in Clients :
    /\ \A k \in 1..Len(received[c]) : \A i \in 1..k-1 : received[c][i].id < received[c][k].id
    /\ \A i \in 1..Len(received[c]) : received[c][i].job = watched[c]

(* The cursor protocol loses nothing: every event of the job up to the client's
   cursor was received, or had left the bounded deque when the client asked. *)
NothingSkipped ==
  \A c \in Clients : \A id \in IdsOf(log[watched[c]]) :
    id <= cursor[c] => (id \in IdsOf(received[c]) <=> id \notin missed[c])

(* When the server closes normally, what the client has and what is still in
   flight is the whole job, its terminal event last. *)
NormalCloseIsComplete ==
  \A c \in Clients : session_of[c] # None =>
    LET s == session_of[c]
        got == received[c] \o wire[s]
    IN  closed[s] =>
          /\ got # <<>> /\ got[Len(got)].status \in Terminal
          /\ IdsOf(log[watched[c]]) = IdsOf(got) \cup missed[c]

(* However connections fail, a client that reconnects with its cursor is told of
   the end of its job. *)
TerminalIsDelivered ==
  \A c \in Clients : Finished(log[watched[c]]) ~> Finished(received[c])

(* Once a job has ended no queue stays registered for it, also not for
   connections that died: the hub keeps no subscriber of a finished job. *)
FinishedJobIsReleased ==
  \A j \in Jobs : Finished(log[j]) ~> subscribers[j] = {}
=============================================================================
