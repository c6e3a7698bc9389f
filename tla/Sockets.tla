------------------------------ MODULE Sockets ------------------------------
(***************************************************************************)
(* The long-lived connections of the REST server: the WebSocket event hub  *)
(* (EventHub) and the VNC console proxy (handleVNCConsole), each as the    *)
(* goroutines it runs.  Upgrading a request is gorilla/websocket's and may *)
(* fail; it always does for a request that came through NewRouter, whose   *)
(* status-capturing writers hide http.Hijacker, so what is shown here is   *)
(* about the handlers mounted without those wrappers.  No code calls       *)
(* Broadcast yet.                                                          *)
(***************************************************************************)
EXTENDS Maps, FiniteSets

CONSTANTS Conns, Senders   \* WebSocket connections; goroutines that broadcast

VARIABLES hub,             \* hub.clients
          conn,            \* conn[k]: how far HandleWS is with connection k
          todo,            \* todo[b]: connections Broadcast still has to write to
          console          \* the VNC session: tcp, ws, both pumps, the handler

hubVars == <<hub, conn, todo>>
soVars == <<hubVars, console>>

\* up and down: what a pump is blocked in; tcp and ws: open, hung up by the
\* far end, or closed by the handler.
NoSession == [handler |-> "idle", up |-> "none", down |-> "none",
              tcp |-> "none", ws |-> "none", done |-> 0]

SoInit ==
    /\ hub = {} /\ conn = [k \in Conns |-> "new"]
    /\ todo = Empty
    /\ console = NoSession

-----------------------------------------------------------------------------
(* EventHub.  Broadcast keeps the read lock for its whole loop, so the     *)
(* steps that take the write lock wait for every Broadcast under way, and  *)
(* a waiting writer keeps new readers out.                                 *)

Upgrade(k) ==
    /\ conn[k] = "new"
    /\ \E next \in {"joining", "refused"} : conn' = [conn EXCEPT ![k] = next]
    /\ UNCHANGED <<hub, todo, console>>

WriteLocked == DOMAIN todo = {}

Join(k) ==
    /\ conn[k] = "joining" /\ WriteLocked
    /\ hub' = hub \cup {k}
    /\ conn' = [conn EXCEPT ![k] = "reading"]
    /\ UNCHANGED <<todo, console>>

\* ReadMessage returns an error: the client went away.
ReadFails(k) ==
    /\ conn[k] = "reading"
    /\ conn' = [conn EXCEPT ![k] = "leaving"]
    /\ UNCHANGED <<hub, todo, console>>

\* The deferred function: out of the map, then close.
LeaveHub(k) ==
    /\ conn[k] = "leaving" /\ WriteLocked
    /\ hub' = hub \ {k}
    /\ conn' = [conn EXCEPT ![k] = "left"]
    /\ UNCHANGED <<todo, console>>

CloseConnEarly(k) ==
    /\ conn[k] \in {"leaving", "left"}
    /\ conn' = [conn EXCEPT ![k] = "closed"]
    /\ UNCHANGED <<hub, todo, console>>

CloseConn(k) ==
    /\ conn[k] = "left"
    /\ conn' = [conn EXCEPT ![k] = "closed"]
    /\ UNCHANGED <<hub, todo, console>>

HandleWS(k) == Upgrade(k) \/ Join(k) \/ LeaveHub(k) \/ CloseConn(k)

Broadcast(b) ==
    /\ b \notin DOMAIN todo
    /\ \A k \in Conns : conn[k] \notin {"joining", "leaving"}
    /\ todo' = Put(todo, b, hub)
    /\ UNCHANGED <<hub, conn, console>>

\* A failed write is logged and the loop goes on; its end releases the lock.
BroadcastWrite(b) ==
    /\ b \in DOMAIN todo
    /\ \/ /\ todo[b] = {}
          /\ todo' = Del(todo, b)
       \/ \E k \in todo[b] : todo' = [todo EXCEPT ![b] = @ \ {k}]
    /\ UNCHANGED <<hub, conn, console>>

-----------------------------------------------------------------------------
(* handleVNCConsole.                                                       *)

\* No such VM, no VNC port, or no VNC server: an error answer and no session;
\* a failed upgrade closes the TCP connection again.
OpenConsole ==
    /\ console.handler = "idle"
    /\ \E upgraded \in BOOLEAN :
          console' = IF upgraded
                     THEN [handler |-> "waits", up |-> "read", down |-> "read",
                           tcp |-> "open", ws |-> "open", done |-> 0]
                     ELSE NoSession
    /\ UNCHANGED hubVars

\* The browser or QEMU goes away.
HangUp(side) ==
    /\ console.handler = "waits" /\ console[side] = "open"
    /\ console' = [console EXCEPT ![side] = "hungup"]
    /\ UNCHANGED hubVars

From(pump) == IF pump = "down" THEN "tcp" ELSE "ws"

To(pump) == IF pump = "down" THEN "ws" ELSE "tcp"

\* The pump ends and its deferred send on done (capacity 2) never blocks.
PumpEnds(pump) ==
    /\ \/ console[pump] = "read" /\ console[From(pump)] # "open"
       \/ console[pump] = "write" /\ console[To(pump)] # "open"
    /\ console' = [console EXCEPT ![pump] = "ended", !.done = @ + 1]
    /\ UNCHANGED hubVars

PumpReads(pump) ==
    /\ console[pump] = "read" /\ console[From(pump)] = "open"
    /\ console' = [console EXCEPT ![pump] = "write"]
    /\ UNCHANGED hubVars

PumpWrites(pump) ==
    /\ console[pump] = "write" /\ console[To(pump)] = "open"
    /\ console' = [console EXCEPT ![pump] = "read"]
    /\ UNCHANGED hubVars

ConsoleReturnsHalf ==
    /\ console.handler = "waits" /\ console.done > 0
    /\ console' = [console EXCEPT !.handler = "returned", !.ws = "closed"]
    /\ UNCHANGED hubVars

\* The first pump to end wakes the handler, whose deferred calls close both
\* connections and so end the other pump.
ConsoleReturns ==
    /\ console.handler = "waits" /\ console.done > 0
    /\ console' = [console EXCEPT !.handler = "returned", !.ws = "closed", !.tcp = "closed"]
    /\ UNCHANGED hubVars

\* Nothing of the session is left: the next one may start.
Forgotten ==
    /\ console.handler = "returned" /\ console.up = "ended" /\ console.down = "ended"
    /\ console' = NoSession
    /\ UNCHANGED hubVars

-----------------------------------------------------------------------------
SoNext ==
    \/ \E k \in Conns : HandleWS(k) \/ ReadFails(k)
    \/ \E b \in Senders : Broadcast(b) \/ BroadcastWrite(b)
    \/ OpenConsole \/ ConsoleReturns \/ Forgotten
    \/ \E side \in {"tcp", "ws"} : HangUp(side)
    \/ \E pump \in {"up", "down"} : PumpReads(pump) \/ PumpWrites(pump) \/ PumpEnds(pump)

\* The console's goroutines run, a write returns (the far end reads as long as
\* it is there), and so does a read of a connection that is gone; nobody has to
\* send, call or hang up.  The handler sets no deadline that would do without.
SoFairness ==
    /\ WF_soVars(ConsoleReturns)
    /\ \A pump \in {"up", "down"} : WF_soVars(PumpWrites(pump) \/ PumpEnds(pump))

SoSpec == SoInit /\ [][SoNext]_soVars /\ SoFairness

-----------------------------------------------------------------------------
(* Properties.                                                             *)

\* Broadcast never writes to a connection its HandleWS has closed: a client
\* leaves the map before it is closed, and not under a Broadcast.
NoWriteAfterClose == \A b \in DOMAIN todo : \A k \in todo[b] : conn[k] # "closed"

\* When either end of a console goes away both pumps end, even the one that
\* is blocked on the end that is still there.
ConsoleEnds ==
    console.tcp = "hungup" \/ console.ws = "hungup"
        ~> console.up \in {"ended", "none"} /\ console.down \in {"ended", "none"}
=============================================================================
