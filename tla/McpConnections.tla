--------------------------- MODULE McpConnections ---------------------------
(* The MCP connection manager: the catalog, one managed object per         *)
(* connection attempt, the SDK client behind it, and the snapshot of tools *)
(* the bridge offers to planning.                                          *)
(*                                                                         *)
(* initialize, reload, reconnect, retryFailed and onModuleDestroy are      *)
(* asynchronous tasks over one in-memory map.  A task is suspended while   *)
(* its connect, its tools/list or the closing of a connection is in        *)
(* flight, and other tasks run there; between those it runs to completion. *)
EXTENDS Naturals, Sequences, FiniteSets

CONSTANTS
    Servers,    \* names a catalog may hold
    Tasks,      \* slots for tasks in flight
    Entries,    \* versions of an enabled catalog entry
    Faults,     \* what transports do: "error" without closing, "list" refused
    MaxLinks    \* bound: connection attempts

\* An entry that is not in the catalog, and one with enabled: false.
Missing == "missing"
Off == "off"

ASSUME McpAssumption ==
    /\ Missing \notin Entries /\ Off \notin Entries
    /\ Faults \subseteq {"error", "list"}
    /\ MaxLinks \in Nat

VARIABLES
    catalog,   \* the catalog file
    servers,   \* the map: the index of each server's managed object, or 0
    links,     \* managed objects, in the order they were created
    timer,     \* retryTimer is armed
    watch,     \* the file changed and the debounced reload has not begun
    task,      \* the tasks in flight
    offered,   \* the bridge's snapshot: the entry whose tools are offered
    phase,     \* "boot" until onModuleInit is through, "up", "down"
    \* What happened so far:
    overlapped, \* another operation ran beside the last catalog walk
    unheard     \* objects whose transport reported an error to nobody

vars == <<catalog, servers, links, timer, watch, task, offered, phase, overlapped, unheard>>
past == <<overlapped, unheard>>

Ids == 0..MaxLinks
Catalogs == [Servers -> Entries \cup {Missing, Off}]

\* state and entry as in ManagedServer; has: its client field is set; held:
\* the SDK client still refers to its connection; wire: that one is open.
Links == [server : Servers, entry : Entries \cup {Off},
          state : {"connected", "disabled", "failed"},
          has : BOOLEAN, held : BOOLEAN, wire : BOOLEAN]

\* kind: the operation; todo: what its loop has left, server names or, for
\* retryFailed, managed objects; cat: the catalog it read; cur: the managed
\* object it works on; io: the disconnect it awaits closes a connection;
\* did: whether retryFailed tried any.
Kinds == {"none", "initialize", "reload", "reconnect", "retry", "destroy"}
Labels == {"idle", "prune", "pruning", "visit", "disabling", "replacing",
           "retry", "rejoining", "closing", "closed", "connecting", "listing"}
TaskRecords == [kind : Kinds, pc : Labels, todo : SUBSET (Servers \cup Ids),
                cat : Catalogs, srv : Servers \cup {Missing}, cur : Ids,
                io : BOOLEAN, did : BOOLEAN]

Idle == [kind |-> "none", pc |-> "idle", todo |-> {},
         cat |-> [s \in Servers |-> Missing], srv |-> Missing, cur |-> 0,
         io |-> FALSE, did |-> FALSE]

Listed(cat) == {s \in Servers : cat[s] # Missing}
Known == {s \in Servers : servers[s] # 0}

\* initialize is under way: it visits the entries of the catalog it read.
Init ==
    /\ catalog \in Catalogs
    /\ servers = [s \in Servers |-> 0]
    /\ links = <<>>
    /\ timer = FALSE /\ watch = FALSE /\ phase = "boot"
    /\ \E boot \in Tasks :
         task = [t \in Tasks |->
                   IF t = boot
                     THEN [Idle EXCEPT !.kind = "initialize", !.pc = "visit",
                                       !.cat = catalog, !.todo = Listed(catalog)]
                     ELSE Idle]
    /\ offered = [s \in Servers |-> Missing]
    /\ overlapped = FALSE /\ unheard = {}

-----------------------------------------------------------------------------
(* the parts of an operation *)

\* notifyToolsChanged: the bridge rebuilds its snapshot from what the map and
\* the objects are after the step.
Refreshed(map, objs) ==
    [s \in Servers |->
       IF map[s] # 0 /\ objs[map[s]].state = "connected" THEN objs[map[s]].entry
       ELSE Missing]
Notify == offered' = Refreshed(servers', links')

\* client.disconnect(): closes the connection the SDK client still holds.
Closes(l) == l # 0 /\ links[l].has /\ links[l].held
Disconnected(l) ==
    IF Closes(l)
      THEN [links EXCEPT ![l].held = FALSE, ![l].wire = FALSE]
      ELSE links

\* server.client = null.
Bare(l) == IF l = 0 THEN links ELSE [links EXCEPT ![l].has = FALSE]

\* What reload does to the client of an object it is about to replace.
ReleasedNever(l) == links
Released(l) == Disconnected(l)

\* A fresh managed object without a client takes the server's place.
Put(objs, s, e, state) ==
    /\ Len(objs) < MaxLinks
    /\ links' = Append(objs, [server |-> s, entry |-> e, state |-> state,
                              has |-> FALSE, held |-> FALSE, wire |-> FALSE])
    /\ servers' = [servers EXCEPT ![s] = Len(links')]

\* connectOne up to its await: the object says failed while it connects.
Connect(objs, s, e) == Put(objs, s, e, "failed")

\* Back at the head of its loop a task holds no object.
Loop(t, label) ==
    task' = [task EXCEPT ![t].pc = label, ![t].srv = Missing, ![t].cur = 0, ![t].io = FALSE]

-----------------------------------------------------------------------------
(* reload and initialize *)

Begin(t, rec) ==
    /\ task[t].pc = "idle"
    /\ task' = [task EXCEPT ![t] = rec]

\* A task that walks the catalog, alone from its beginning to its end or not.
Walks(t) == task[t].kind \in {"initialize", "reload"}
WalkBegins == overlapped' = (\E t \in Tasks : task[t].pc # "idle")
OtherBegins == overlapped' = (overlapped \/ \E t \in Tasks : Walks(t))

\* The catalog is read; the servers it no longer lists are dropped first.
ReloadingKeepsAll ==
    [Idle EXCEPT !.kind = "reload", !.pc = "prune", !.cat = catalog]
Reloading ==
    [Idle EXCEPT !.kind = "reload", !.pc = "prune", !.cat = catalog,
                 !.todo = Known \ Listed(catalog)]

\* POST reload.
Reload(t) ==
    /\ phase = "up"
    /\ Begin(t, Reloading) /\ WalkBegins
    /\ UNCHANGED <<catalog, servers, links, timer, watch, offered, phase, unheard>>

\* The debounced watcher reloads by itself.
WatchFires(t) ==
    /\ phase = "up" /\ watch
    /\ watch' = FALSE
    /\ Begin(t, Reloading) /\ WalkBegins
    /\ UNCHANGED <<catalog, servers, links, timer, offered, phase, unheard>>

\* The file is edited by hand, or by upsertServerEntry / removeServerEntry
\* (whose own reload is a Reload that follows).
EditCatalog(s, e) ==
    /\ phase = "up"
    /\ catalog[s] # e
    /\ catalog' = [catalog EXCEPT ![s] = e]
    /\ watch' = TRUE
    /\ UNCHANGED <<servers, links, timer, task, offered, phase, past>>

\* disconnectOne: close the object's client, then delete the name.
Prune(t, s) ==
    /\ task[t].pc = "prune" /\ s \in task[t].todo
    /\ task' = [task EXCEPT ![t].todo = @ \ {s}, ![t].srv = s, ![t].cur = servers[s],
                            ![t].io = Closes(servers[s]), ![t].pc = "pruning"]
    /\ links' = Disconnected(servers[s])
    /\ UNCHANGED <<catalog, servers, timer, watch, offered, phase, past>>

Pruned(t) ==
    /\ task[t].pc = "pruning"
    /\ links' = Bare(task[t].cur)
    /\ servers' = [servers EXCEPT ![task[t].srv] = 0]
    /\ Loop(t, "prune")
    /\ UNCHANGED <<catalog, timer, watch, offered, phase, past>>

PruneEnds(t) ==
    /\ task[t].pc = "prune" /\ task[t].todo = {}
    /\ task' = [task EXCEPT ![t].pc = "visit", ![t].todo = Listed(task[t].cat)]
    /\ UNCHANGED <<catalog, servers, links, timer, watch, offered, phase, past>>

\* A healthy connection under the same entry is left alone.
Healthy(l, e) == l # 0 /\ links[l].state = "connected" /\ links[l].entry = e

Visit(t, s) ==
    LET e == task[t].cat[s]
        l == servers[s] IN
    /\ task[t].pc = "visit" /\ s \in task[t].todo
    /\ \/ /\ e = Off /\ l = 0
          /\ Put(links, s, Off, "disabled")
          /\ task' = [task EXCEPT ![t].todo = @ \ {s}]
       \/ /\ e # Off /\ Healthy(l, e)
          /\ task' = [task EXCEPT ![t].todo = @ \ {s}]
          /\ UNCHANGED <<servers, links>>
       \/ /\ ~(e = Off /\ l = 0) /\ ~(e # Off /\ Healthy(l, e))
          /\ links' = IF e = Off THEN Disconnected(l) ELSE Released(l)
          /\ task' = [task EXCEPT ![t].todo = @ \ {s}, ![t].srv = s, ![t].cur = l,
                                  ![t].io = Closes(l),
                                  ![t].pc = IF e = Off THEN "disabling" ELSE "replacing"]
          /\ UNCHANGED servers
    /\ UNCHANGED <<catalog, timer, watch, offered, phase, past>>

\* disableOne after its await: the object read before it is written.
DisabledStaysConnected(t) ==
    /\ task[t].pc = "disabling"
    /\ links' = [links EXCEPT ![task[t].cur].entry = Off, ![task[t].cur].has = FALSE]
    /\ Loop(t, "visit")
    /\ UNCHANGED <<catalog, servers, timer, watch, offered, phase, past>>
Disabled(t) ==
    /\ task[t].pc = "disabling"
    /\ links' = [links EXCEPT ![task[t].cur].entry = Off,
                              ![task[t].cur].has = FALSE,
                              ![task[t].cur].state = "disabled"]
    /\ Loop(t, "visit")
    /\ UNCHANGED <<catalog, servers, timer, watch, offered, phase, past>>

Replaced(t) ==
    /\ task[t].pc = "replacing"
    /\ Connect(links, task[t].srv, task[t].cat[task[t].srv])
    /\ task' = [task EXCEPT ![t].pc = "connecting", ![t].io = FALSE, ![t].cur = Len(links')]
    /\ UNCHANGED <<catalog, timer, watch, offered, phase, past>>

VisitEnds(t) ==
    /\ task[t].pc = "visit" /\ task[t].todo = {}
    /\ task' = [task EXCEPT ![t] = Idle]
    /\ phase' = IF phase = "boot" THEN "up" ELSE phase
    /\ UNCHANGED <<catalog, servers, links, timer, watch, past>>
    /\ Notify

-----------------------------------------------------------------------------
(* connectOne after its await *)

\* What the task does once connectOne returned.
Resumed(t) ==
    IF task[t].kind = "reconnect" THEN Idle
    ELSE [task[t] EXCEPT !.pc = IF task[t].kind = "retry" THEN "retry" ELSE "visit",
                         !.srv = Missing, !.cur = 0, !.io = FALSE]

\* Only reconnect ends with connectOne, and then notifies.
Settle(t) ==
    /\ task' = [task EXCEPT ![t] = Resumed(t)]
    /\ UNCHANGED <<catalog, servers, watch, phase, past>>
    /\ IF task[t].kind = "reconnect" THEN Notify ELSE UNCHANGED offered

\* scheduleRetry: one timer at a time (the backoff is positive).
ScheduleRetry == timer' = TRUE

\* The transport opened; tools/list follows.
ConnectOpens(t) ==
    /\ task[t].pc = "connecting"
    /\ links' = [links EXCEPT ![task[t].cur].held = TRUE, ![task[t].cur].wire = TRUE]
    /\ task' = [task EXCEPT ![t].pc = "listing"]
    /\ UNCHANGED <<catalog, servers, timer, watch, offered, phase, past>>

\* A failed attempt leaves the object failed and arms the timer; the
\* transport is closed by connect itself when it never opened, and by nobody
\* when tools/list was refused.
ConnectFailsOnce(t) ==
    /\ task[t].pc = "connecting"
    /\ links' = [links EXCEPT ![task[t].cur].has = FALSE,
                              ![task[t].cur].state = "failed"]
    /\ timer' = (timer \/ task[t].kind # "retry")
    /\ Settle(t)
ConnectFails(t) ==
    /\ \/ task[t].pc = "connecting"
       \/ /\ task[t].pc = "listing"
          /\ "list" \in Faults \/ ~links[task[t].cur].wire
    /\ links' = [links EXCEPT ![task[t].cur].has = FALSE,
                              ![task[t].cur].state = "failed"]
    /\ ScheduleRetry
    /\ Settle(t)

ConnectSucceeds(t) ==
    /\ task[t].pc = "listing"
    /\ links[task[t].cur].wire
    /\ links' = [links EXCEPT ![task[t].cur].has = TRUE,
                              ![task[t].cur].state = "connected"]
    /\ Settle(t)
    /\ UNCHANGED timer

-----------------------------------------------------------------------------
(* drops, retries, explicit reconnects, shutdown *)

\* markUnavailable: ignored unless the map still holds this very client.
Current(l) == servers[links[l].server] = l /\ links[l].has

Unavailable(l, objs) ==
    \/ /\ Current(l)
       /\ links' = [objs EXCEPT ![l].has = FALSE, ![l].state = "failed"]
       /\ ScheduleRetry
       /\ UNCHANGED servers
       /\ Notify
    \/ /\ ~Current(l)
       /\ links' = objs
       /\ UNCHANGED <<servers, timer, offered>>

\* The connection closes by itself.
LinkDrops(l) ==
    /\ links[l].wire
    /\ Unavailable(l, [links EXCEPT ![l].wire = FALSE, ![l].held = FALSE])
    /\ UNCHANGED <<catalog, watch, task, phase, past>>

\* onerror: the SDK client lets go of a connection that stays open; every
\* error reports again.
LinkErrors(l) ==
    /\ "error" \in Faults
    /\ links[l].wire
    /\ Unavailable(l, [links EXCEPT ![l].held = FALSE])
    /\ unheard' = IF links[l].has THEN unheard ELSE unheard \cup {l}
    /\ UNCHANGED <<catalog, watch, task, phase, overlapped>>

\* The timer fires: the values of the map are copied and walked.
RetryFires(t) ==
    /\ timer
    /\ Begin(t, [Idle EXCEPT !.kind = "retry", !.pc = "retry",
                             !.todo = {servers[s] : s \in Known}])
    /\ OtherBegins
    /\ timer' = FALSE
    /\ UNCHANGED <<catalog, servers, links, watch, offered, phase, unheard>>

\* An object that is failed by now, still connecting included, is connected
\* again, whether or not the map still holds it.
RetryNext(t, l) ==
    /\ task[t].pc = "retry" /\ l \in task[t].todo
    /\ \/ /\ links[l].state = "failed" /\ links[l].entry # Off
          /\ Connect(links, links[l].server, links[l].entry)
          /\ task' = [task EXCEPT ![t].pc = "connecting", ![t].io = FALSE, ![t].cur = Len(links'),
                                  ![t].todo = @ \ {l}, ![t].did = TRUE]
       \/ /\ ~(links[l].state = "failed" /\ links[l].entry # Off)
          /\ task' = [task EXCEPT ![t].todo = @ \ {l}]
          /\ UNCHANGED <<servers, links>>
    /\ UNCHANGED <<catalog, timer, watch, offered, phase, past>>

RetryEndsQuietly(t) ==
    /\ task[t].pc = "retry" /\ task[t].todo = {}
    /\ task' = [task EXCEPT ![t] = Idle]
    /\ UNCHANGED <<catalog, servers, links, timer, watch, offered, phase, past>>
RetryEnds(t) ==
    /\ task[t].pc = "retry" /\ task[t].todo = {}
    /\ task' = [task EXCEPT ![t] = Idle]
    /\ UNCHANGED <<catalog, servers, links, timer, watch, phase, past>>
    /\ IF task[t].did THEN Notify ELSE UNCHANGED offered

\* reconnect(name), by hand or because a secret it references changed.
Reconnect(t, s) ==
    /\ phase = "up"
    /\ servers[s] # 0 /\ links[servers[s]].entry # Off
    /\ Begin(t, [Idle EXCEPT !.kind = "reconnect", !.pc = "rejoining",
                             !.srv = s, !.cur = servers[s], !.io = Closes(servers[s])])
    /\ OtherBegins
    /\ links' = Disconnected(servers[s])
    /\ UNCHANGED <<catalog, servers, timer, watch, offered, phase, unheard>>

\* The client field is cleared and the object's entry, as it is now, is
\* connected again.
Rejoin(t) ==
    LET l == task[t].cur IN
    /\ task[t].pc = "rejoining"
    /\ Connect(Bare(l), task[t].srv, links[l].entry)
    /\ task' = [task EXCEPT ![t].pc = "connecting", ![t].io = FALSE, ![t].cur = Len(links')]
    /\ UNCHANGED <<catalog, timer, watch, offered, phase, past>>

\* onModuleDestroy: the timers are cleared, every client of the map is closed
\* in turn, and the map is emptied.
Destroy(t) ==
    /\ phase = "up"
    /\ phase' = "down" /\ timer' = FALSE /\ watch' = FALSE
    /\ Begin(t, [Idle EXCEPT !.kind = "destroy", !.pc = "closing", !.todo = Servers])
    /\ OtherBegins
    /\ UNCHANGED <<catalog, servers, links, offered, unheard>>

Close(t, s) ==
    /\ task[t].pc = "closing" /\ s \in task[t].todo
    /\ links' = Disconnected(servers[s])
    /\ task' = [task EXCEPT ![t].todo = @ \ {s}, ![t].cur = servers[s], ![t].pc = "closed",
                            ![t].io = Closes(servers[s])]
    /\ UNCHANGED <<catalog, servers, timer, watch, offered, phase, past>>

Closed(t) ==
    /\ task[t].pc = "closed"
    /\ links' = Bare(task[t].cur)
    /\ Loop(t, "closing")
    /\ UNCHANGED <<catalog, servers, timer, watch, offered, phase, past>>

CloseEnds(t) ==
    /\ task[t].pc = "closing" /\ task[t].todo = {}
    /\ servers' = [s \in Servers |-> 0]
    /\ task' = [task EXCEPT ![t] = Idle]
    /\ UNCHANGED <<catalog, links, timer, watch, offered, phase, past>>

-----------------------------------------------------------------------------
\* Steps a task takes by itself once it was started.
Proceed(t) ==
    \/ Pruned(t) \/ PruneEnds(t) \/ Disabled(t) \/ Replaced(t) \/ VisitEnds(t)
    \/ ConnectOpens(t) \/ ConnectFails(t) \/ ConnectSucceeds(t)
    \/ RetryEnds(t) \/ Rejoin(t) \/ Closed(t) \/ CloseEnds(t)
    \/ \E s \in Servers : Prune(t, s) \/ Visit(t, s) \/ Close(t, s)
    \/ \E l \in DOMAIN links : RetryNext(t, l)

Start(t) ==
    \/ Reload(t) \/ WatchFires(t) \/ RetryFires(t) \/ Destroy(t)
    \/ \E s \in Servers : Reconnect(t, s)

\* A task that awaits nothing in flight keeps the event loop to itself.
Running(t) ==
    \/ task[t].pc \in {"prune", "visit", "retry", "closing"}
    \/ task[t].pc \in {"pruning", "disabling", "replacing", "rejoining", "closed"} /\ ~task[t].io

Next ==
    \/ \E t \in Tasks : Running(t) /\ Proceed(t)
    \/ /\ \A t \in Tasks : ~Running(t)
       /\ \/ \E t \in Tasks : Proceed(t) \/ Start(t)
          \/ \E l \in DOMAIN links : LinkDrops(l) \/ LinkErrors(l)
          \/ \E s \in Servers, e \in Entries \cup {Missing, Off} : EditCatalog(s, e)

Spec == Init /\ [][Next]_vars

\* Connects, listings and closes end, by success, an error or the SDK's
\* request timeout, and the event loop runs what is ready.
FairSpec == Spec /\ WF_vars(\E t \in Tasks : Proceed(t))

-----------------------------------------------------------------------------
\* The map, the objects and the tasks have their types, and the map files
\* every object under the name of its own server.
StateOK ==
    /\ catalog \in Catalogs
    /\ links \in Seq(Links) /\ Len(links) <= MaxLinks
    /\ servers \in [Servers -> 0..Len(links)]
    /\ \A s \in Known : links[servers[s]].server = s
    /\ timer \in BOOLEAN /\ watch \in BOOLEAN /\ phase \in {"boot", "up", "down"}
    /\ task \in [Tasks -> TaskRecords]
    /\ \A t \in Tasks : task[t].cur <= Len(links)
    /\ offered \in [Servers -> Entries \cup {Missing, Off}]
PastOK == overlapped \in BOOLEAN /\ unheard \subseteq Ids
TypeOK == StateOK /\ PastOK

Quiet == \A t \in Tasks : task[t].pc = "idle"

\* Nobody has l in hand to connect or to disconnect it.
Untouched(l) == \A t \in Tasks : task[t].cur # l \/ task[t].pc \in {"idle", "prune", "visit", "retry"}

\* Once the tasks are through, planning is offered exactly the tools of the
\* servers that are connected, under the entry (and so the approval policy)
\* they were connected with, however the tasks and the drops overlapped.
BridgeIsCurrent ==
    Quiet /\ phase = "up" => offered = Refreshed(servers, links)

\* A failed server is never forgotten: the backoff timer is armed, or a retry
\* in progress still has it ahead, although there is one timer for all and it
\* is disarmed before the attempts it starts are over.
FailedIsRetried ==
    \A s \in Known :
      LET l == servers[s] IN
      (links[l].state = "failed" /\ links[l].entry # Off /\ Untouched(l) /\ phase # "down") =>
        timer \/ \E t \in Tasks : task[t].kind = "retry" /\ l \in task[t].todo

\* The manager "owns one client per catalogued server": no two connections to
\* one server are open.
OneClientPerServer ==
    \A i, j \in DOMAIN links :
      links[i].wire /\ links[j].wire /\ links[i].server = links[j].server => i = j

\* reload "reconciles": when no task walks the catalog and no edit waits for
\* the watcher, the map holds the servers of the catalog, each under its entry,
\* the disabled ones without a connection, whatever dropped, was refused or was
\* retried; unless another operation ran beside the last walk (see
\* OverlapIsApplied).
Applied ==
    \A s \in Servers :
      IF catalog[s] = Missing THEN servers[s] = 0
      ELSE /\ servers[s] # 0
           /\ links[servers[s]].entry = catalog[s]
           /\ catalog[s] = Off => links[servers[s]].state # "connected"
CatalogIsApplied ==
    (\A t \in Tasks : ~Walks(t)) /\ ~watch /\ phase = "up" /\ ~overlapped => Applied

\* The same, also after operations that overlapped a walk: the code does not
\* keep it.
OverlapIsApplied == Quiet /\ ~watch /\ phase = "up" => Applied

\* "An unexpected close marks the server unavailable": however operations and
\* drops overlap, a server the map calls connected, which no task is about to
\* replace, has a client, and its connection is open and still the client's,
\* unless the transport reported an error before the client was in place (see
\* ErrorsAreHeard).
ConnectedIsUsable ==
    \A s \in Known :
      LET l == servers[s] IN
      links[l].state = "connected" /\ Untouched(l) /\ phase # "down" =>
        /\ links[l].has /\ links[l].wire
        /\ links[l].held \/ l \in unheard

\* The same, also after such an error: the code does not keep it.
ErrorsAreHeard ==
    \A s \in Known :
      LET l == servers[s] IN
      links[l].state = "connected" /\ Untouched(l) /\ phase # "down" => links[l].held

\* scheduleRetry: "a server that recovered (or was reloaded away) is never
\* reconnected blindly".
NeverReconnectsBlindly ==
    [][\A t \in Tasks, l \in DOMAIN links :
         RetryNext(t, l) /\ links # links'
           => servers[links[l].server] # 0
              /\ links[servers[links[l].server]].state = "failed"]_vars
=============================================================================
