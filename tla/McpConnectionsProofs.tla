------------------------ MODULE McpConnectionsProofs ------------------------
(* Safety of the MCP connection manager, for any number of servers, tasks, *)
(* entries, faults and connection attempts.                                *)
EXTENDS McpConnections, TLAPS

-----------------------------------------------------------------------------
(* the table of managed objects                                            *)

\* Writing one object leaves the others, and the length, alone.
LEMMA OneObjectWritten ==
    ASSUME NEW objs \in Seq(Links), NEW l \in 1..Len(objs), NEW r \in Links
    PROVE  /\ [objs EXCEPT ![l] = r] \in Seq(Links)
           /\ Len([objs EXCEPT ![l] = r]) = Len(objs)
           /\ [objs EXCEPT ![l] = r][l] = r
           /\ \A i \in 1..Len(objs) : i # l => [objs EXCEPT ![l] = r][i] = objs[i]
OBVIOUS

\* Two tables of the same objects: what they say of their connections may
\* differ, and nothing else.
SameBut(objs, l) ==
    /\ objs \in Seq(Links) /\ Len(objs) = Len(links)
    /\ \A i \in 1..Len(links) :
         /\ objs[i].server = links[i].server
         /\ i # l => objs[i] = links[i]

\* disconnect() writes no name, no state and no entry.
LEMMA DisconnectedTable ==
    ASSUME StateOK, NEW l \in Ids, l <= Len(links)
    PROVE  /\ SameBut(Disconnected(l), l)
           /\ l # 0 => /\ Disconnected(l)[l].state = links[l].state
                       /\ Disconnected(l)[l].entry = links[l].entry
                       /\ Disconnected(l)[l].has = links[l].has
                       /\ ~links[l].held => Disconnected(l) = links
                       /\ links[l].has => ~Disconnected(l)[l].held
                       /\ links[l].has /\ links[l].held => ~Disconnected(l)[l].wire
<1>1. links \in Seq(Links)
    BY DEF StateOK
<1>2. CASE ~Closes(l)
    BY <1>1, <1>2 DEF Disconnected, Closes, SameBut
<1>3. CASE Closes(l)
  <2>1. l \in 1..Len(links) /\ links[l] \in Links
    BY <1>1, <1>3, McpAssumption DEF Closes, Ids
  <2> DEFINE r == [links[l] EXCEPT !.held = FALSE, !.wire = FALSE]
  <2>2. /\ r \in Links /\ r.server = links[l].server /\ r.state = links[l].state
        /\ r.entry = links[l].entry /\ r.has = links[l].has /\ ~r.held /\ ~r.wire
    BY <2>1 DEF Links
  <2>3. Disconnected(l) = [links EXCEPT ![l] = r]
    BY <1>1, <1>3, <2>1 DEF Disconnected
  <2> HIDE DEF r
  <2>4. /\ Disconnected(l) \in Seq(Links) /\ Len(Disconnected(l)) = Len(links)
        /\ Disconnected(l)[l] = r
        /\ \A i \in 1..Len(links) : i # l => Disconnected(l)[i] = links[i]
    BY <1>1, <2>1, <2>2, <2>3, OneObjectWritten
  <2>5. links[l].has /\ links[l].held
    BY <1>3 DEF Closes
  <2>q. QED
    BY <2>2, <2>4, <2>5 DEF SameBut
<1>q. QED
    BY <1>2, <1>3

\* Clearing a client writes nothing else.
LEMMA BareTable ==
    ASSUME StateOK, NEW l \in Ids, l <= Len(links)
    PROVE  /\ SameBut(Bare(l), l)
           /\ l # 0 => /\ Bare(l)[l].state = links[l].state
                       /\ Bare(l)[l].entry = links[l].entry
                       /\ Bare(l)[l].held = links[l].held
                       /\ Bare(l)[l].wire = links[l].wire
                       /\ ~Bare(l)[l].has
<1>1. links \in Seq(Links)
    BY DEF StateOK
<1>2. CASE l = 0
    BY <1>1, <1>2 DEF Bare, SameBut
<1>3. CASE l # 0
  <2>1. l \in 1..Len(links) /\ links[l] \in Links
    BY <1>1, <1>3, McpAssumption DEF Ids
  <2> DEFINE r == [links[l] EXCEPT !.has = FALSE]
  <2>2. /\ r \in Links /\ r.server = links[l].server /\ r.state = links[l].state
        /\ r.entry = links[l].entry /\ r.held = links[l].held /\ r.wire = links[l].wire
        /\ ~r.has
    BY <2>1 DEF Links
  <2>3. Bare(l) = [links EXCEPT ![l] = r]
    BY <1>1, <1>3, <2>1 DEF Bare
  <2> HIDE DEF r
  <2>q. QED
    BY <1>1, <1>3, <2>1, <2>2, <2>3, OneObjectWritten DEF SameBut
<1>q. QED
    BY <1>2, <1>3

\* A fresh object takes the last place of the table.
LEMMA PutTable ==
    ASSUME StateOK, NEW l, NEW objs, SameBut(objs, l), NEW r \in Links,
           Len(objs) < MaxLinks, links' = Append(objs, r)
    PROVE  /\ links' \in Seq(Links) /\ Len(links') = Len(links) + 1 /\ Len(links') <= MaxLinks
           /\ \A i \in 1..Len(links) : links'[i] = objs[i]
           /\ links'[Len(links')] = r
<1>1. objs \in Seq(Links) /\ Len(objs) = Len(links) /\ Len(objs) \in Nat /\ MaxLinks \in Nat
    BY McpAssumption DEF SameBut
<1>2. links' \in Seq(Links) /\ Len(links') = Len(objs) + 1
    BY <1>1
<1>3. \A i \in 1..Len(objs) : links'[i] = objs[i]
    BY <1>1
<1>4. links'[Len(objs) + 1] = r
    BY <1>1
<1>q. QED
    BY <1>1, <1>2, <1>3, <1>4

\* An object that was written keeps its name.
LEMMA ObjectWritten ==
    ASSUME StateOK, NEW l \in 1..Len(links), NEW r \in Links, r.server = links[l].server,
           links' = [links EXCEPT ![l] = r]
    PROVE  SameBut(links', l) /\ links'[l] = r
<1>1. links \in Seq(Links)
    BY DEF StateOK
<1>2. /\ links' \in Seq(Links) /\ Len(links') = Len(links) /\ links'[l] = r
      /\ \A i \in 1..Len(links) : i # l => links'[i] = links[i]
    BY <1>1, OneObjectWritten
<1>q. QED
    BY <1>2 DEF SameBut

-----------------------------------------------------------------------------
(* the control of the tasks                                                *)

\* What a task at each label works on, and for whom.
Sound(t) ==
    LET r == task[t] IN
    /\ r.pc = "idle" => r.kind = "none"
    /\ r.pc \in {"prune", "pruning"} => r.kind = "reload"
    /\ r.pc \in {"visit", "disabling", "replacing"} => r.kind \in {"initialize", "reload"}
    /\ r.pc = "retry" => r.kind = "retry"
    /\ r.pc = "rejoining" => r.kind = "reconnect"
    /\ r.pc \in {"closing", "closed"} => r.kind = "destroy" /\ phase = "down"
    /\ r.pc \in {"connecting", "listing"} =>
         /\ r.kind \in {"initialize", "reload", "reconnect", "retry"}
         /\ r.cur # 0
         /\ r.kind = "retry" => r.did
    /\ r.pc \in {"pruning", "disabling", "replacing", "rejoining"} =>
         r.srv \in Servers /\ (r.cur # 0 => links[r.cur].server = r.srv)
    /\ r.pc \in {"disabling", "rejoining"} => r.cur # 0
    /\ r.pc = "replacing" => r.cat[r.srv] \in Entries
    /\ r.kind \in {"initialize", "reload"} /\ r.pc \notin {"prune", "pruning"} =>
         \A s \in r.todo : s \in Servers => r.cat[s] # Missing

\* The inductive invariant.
Inv == StateOK /\ \A t \in Tasks : Sound(t)

\* The map and the table it points into.
Tables ==
    /\ links \in Seq(Links) /\ Len(links) <= MaxLinks
    /\ servers \in [Servers -> 0..Len(links)]
    /\ \A s \in Known : links[servers[s]].server = s

\* A step that drops no object, and renames none.
Grows ==
    /\ Tables'
    /\ Len(links) <= Len(links')
    /\ \A i \in 1..Len(links) : links'[i].server = links[i].server

LEMMA RewriteGrows ==
    ASSUME StateOK, NEW l, SameBut(links', l),
           \/ servers' = servers
           \/ \E s \in Servers : servers' = [servers EXCEPT ![s] = 0]
           \/ servers' = [s \in Servers |-> 0]
    PROVE  Grows
<1>1. /\ links \in Seq(Links) /\ links' \in Seq(Links) /\ Len(links') = Len(links)
      /\ \A i \in 1..Len(links) : links'[i].server = links[i].server
    BY DEF StateOK, SameBut
<1>2. servers \in [Servers -> 0..Len(links)] /\ \A s \in Servers : servers[s] # 0 => links[servers[s]].server = s
    BY DEF StateOK, Known
<1>3. \A s \in Servers : servers'[s] \in {0, servers[s]}
    BY <1>2
<1>4. servers' \in [Servers -> 0..Len(links)]
    BY <1>1, <1>2
<1>5. \A s \in Servers : servers'[s] # 0 => links'[servers'[s]].server = s
    BY <1>1, <1>2, <1>3
<1>6. Len(links') <= MaxLinks
    BY <1>1 DEF StateOK
<1>q. QED
    BY <1>1, <1>4, <1>5, <1>6 DEF Grows, Tables, Known

LEMMA SameGrows ==
    ASSUME StateOK, links' = links, servers' = servers
    PROVE  Grows
<1>1. SameBut(links', 0)
    BY DEF SameBut, StateOK
<1>q. QED
    BY <1>1, RewriteGrows

LEMMA PutGrows ==
    ASSUME StateOK, NEW l, NEW objs, SameBut(objs, l), NEW r \in Links,
           Len(objs) < MaxLinks, links' = Append(objs, r),
           NEW s \in Servers, r.server = s, servers' = [servers EXCEPT ![s] = Len(links')]
    PROVE  Grows /\ Len(links') # 0
<1>1. /\ links' \in Seq(Links) /\ Len(links') = Len(links) + 1 /\ Len(links') <= MaxLinks
      /\ \A i \in 1..Len(links) : links'[i] = objs[i]
      /\ links'[Len(links')].server = s
      /\ servers' = [servers EXCEPT ![s] = Len(links')]
    BY PutTable
<1>2. /\ links \in Seq(Links) /\ servers \in [Servers -> 0..Len(links)]
      /\ \A j \in Servers : servers[j] # 0 => links[servers[j]].server = j
    BY DEF StateOK, Known
<1>3. Len(links) \in Nat
    BY <1>2
<1>4. \A i \in 1..Len(links) : links'[i].server = links[i].server
    BY <1>1 DEF SameBut
<1>5. servers' \in [Servers -> 0..Len(links')]
    BY <1>1, <1>2, <1>3
<1>6. \A j \in Servers : servers'[j] # 0 => links'[servers'[j]].server = j
  <2> SUFFICES ASSUME NEW j \in Servers, servers'[j] # 0 PROVE links'[servers'[j]].server = j
    OBVIOUS
  <2>1. CASE j = s
    BY <1>1, <1>2, <2>1
  <2>2. CASE j # s
    BY <1>1, <1>2, <1>3, <1>4, <2>2
  <2>q. QED
    BY <2>1, <2>2
<1>q. QED
    BY <1>1, <1>3, <1>4, <1>5, <1>6 DEF Grows, Tables, Known

\* The snapshot has the entries of objects.
LEMMA RefreshedIsTyped ==
    ASSUME NEW objs \in Seq(Links), NEW map \in [Servers -> 0..Len(objs)]
    PROVE  Refreshed(map, objs) \in [Servers -> Entries \cup {Missing, Off}]
<1>1. ASSUME NEW s \in Servers, map[s] # 0
      PROVE  objs[map[s]].entry \in Entries \cup {Off}
  <2>1. map[s] \in 1..Len(objs)
    BY <1>1
  <2>2. objs[map[s]] \in Links
    BY <2>1
  <2>q. QED
    BY <2>2 DEF Links
<1>q. QED
    BY <1>1 DEF Refreshed

\* What a step leaves alone stays sound.
LEMMA Framed ==
    ASSUME Inv, Grows,
           catalog' \in Catalogs, timer' \in BOOLEAN, watch' \in BOOLEAN,
           phase' \in {"boot", "up", "down"}, phase = "down" => phase' = "down",
           offered' = offered \/ offered' = Refreshed(servers', links'),
           task' \in [Tasks -> TaskRecords],
           \A u \in Tasks : \/ task'[u] = task[u]
                            \/ Sound(u)' /\ task'[u].cur <= Len(links')
    PROVE  Inv'
<1>1. ASSUME NEW u \in Tasks, task'[u] = task[u]
      PROVE  Sound(u)' /\ task'[u].cur <= Len(links')
  <2>1. Sound(u) /\ task[u].cur \in 0..Len(links)
    <3>1. task[u] \in TaskRecords /\ task[u].cur <= Len(links) /\ MaxLinks \in Nat
      BY McpAssumption DEF Inv, StateOK
    <3>2. task[u].cur \in 0..MaxLinks
      BY <3>1 DEF TaskRecords, Ids
    <3>3. links \in Seq(Links)
      BY DEF Inv, StateOK
    <3>q. QED
      BY <3>1, <3>2, <3>3 DEF Inv
  <2>2. task[u].cur # 0 => links'[task[u].cur].server = links[task[u].cur].server
    BY <2>1 DEF Grows
  <2>3. Len(links) \in Nat /\ Len(links') \in Nat /\ Len(links) <= Len(links')
    BY DEF Inv, StateOK, Grows, Tables
  <2>q. QED
    BY <1>1, <2>1, <2>2, <2>3 DEF Sound
<1>2. \A u \in Tasks : Sound(u)' /\ task'[u].cur <= Len(links')
    BY <1>1
<1>3. offered' \in [Servers -> Entries \cup {Missing, Off}]
    BY RefreshedIsTyped DEF Grows, Tables, Inv, StateOK
<1>4. StateOK'
    BY <1>2, <1>3 DEF Grows, Tables, StateOK
<1>q. QED
    BY <1>2, <1>4 DEF Inv

\* The parts of the tables, as the steps use them.
LEMMA Parts ==
    ASSUME Inv
    PROVE  /\ StateOK /\ links \in Seq(Links) /\ Len(links) \in Nat /\ MaxLinks \in Nat
           /\ 0 \in Ids /\ 0 \in 0..Len(links) /\ catalog \in Catalogs /\ timer \in BOOLEAN /\ watch \in BOOLEAN
           /\ phase \in {"boot", "up", "down"}
           /\ \A t \in Tasks : /\ task[t] \in TaskRecords /\ Sound(t)
                               /\ task[t].cur \in 0..Len(links) /\ task[t].cur \in Ids
           /\ \A s \in Servers : servers[s] \in 0..Len(links) /\ servers[s] \in Ids
<1>1. StateOK /\ links \in Seq(Links) /\ Len(links) \in Nat /\ MaxLinks \in Nat
    BY McpAssumption DEF Inv, StateOK
<1>2. /\ 0 \in Ids /\ 0 \in 0..Len(links) /\ catalog \in Catalogs /\ timer \in BOOLEAN /\ watch \in BOOLEAN
      /\ phase \in {"boot", "up", "down"}
    BY <1>1 DEF Ids, StateOK
<1>3. ASSUME NEW t \in Tasks
      PROVE  /\ task[t] \in TaskRecords /\ Sound(t)
             /\ task[t].cur \in 0..Len(links) /\ task[t].cur \in Ids
  <2>1. task[t] \in TaskRecords /\ Sound(t) /\ task[t].cur <= Len(links)
    BY DEF Inv, StateOK
  <2>2. task[t].cur \in Ids
    BY <2>1 DEF TaskRecords
  <2>q. QED
    BY <1>1, <2>1, <2>2 DEF Ids
<1>4. ASSUME NEW s \in Servers
      PROVE  servers[s] \in 0..Len(links) /\ servers[s] \in Ids
  <2>1. servers[s] \in 0..Len(links) /\ Len(links) <= MaxLinks
    BY DEF Inv, StateOK
  <2>q. QED
    BY <1>1, <2>1 DEF Ids
<1>q. QED
    BY <1>1, <1>2, <1>3, <1>4

LEMMA IdleIsTyped ==
    ASSUME Inv
    PROVE  Idle \in TaskRecords
BY Parts DEF Idle, TaskRecords, Catalogs, Kinds, Labels

\* A step of one task.
LEMMA TaskStep ==
    ASSUME Inv, Grows,
           catalog' \in Catalogs, timer' \in BOOLEAN, watch' \in BOOLEAN,
           phase' \in {"boot", "up", "down"}, phase = "down" => phase' = "down",
           offered' = offered \/ offered' = Refreshed(servers', links'),
           NEW t \in Tasks, NEW r \in TaskRecords, r.cur \in 0..Len(links'),
           task' = [task EXCEPT ![t] = r], Sound(t)'
    PROVE  Inv'
<1>1. task \in [Tasks -> TaskRecords]
    BY DEF Inv, StateOK
<1>2. /\ task' \in [Tasks -> TaskRecords] /\ task'[t] = r
      /\ \A u \in Tasks : u # t => task'[u] = task[u]
    BY <1>1
<1>3. task'[t].cur <= Len(links')
    BY <1>2 DEF Grows, Tables
<1>q. QED
    BY <1>2, <1>3, Framed

\* A step of one task that touches no object.
LEMMA TaskOnly ==
    ASSUME Inv, UNCHANGED <<links, servers>>,
           catalog' \in Catalogs, timer' \in BOOLEAN, watch' \in BOOLEAN,
           phase' \in {"boot", "up", "down"}, phase = "down" => phase' = "down",
           offered' = offered \/ offered' = Refreshed(servers, links),
           NEW t \in Tasks, NEW r \in TaskRecords, r.cur \in 0..Len(links),
           task' = [task EXCEPT ![t] = r], Sound(t)'
    PROVE  Inv'
<1>1. Grows
    BY SameGrows DEF Inv
<1>2. offered' = offered \/ offered' = Refreshed(servers', links')
    OBVIOUS
<1>q. QED
    BY <1>1, <1>2, TaskStep

\* A task that begins holds no object, but the one it reconnects.
LEMMA ReloadBegins ==
    ASSUME Inv, NEW t \in Tasks, Reload(t) \/ WatchFires(t)
    PROVE  Inv'
<1> DEFINE r == Reloading
<1>1. /\ r \in TaskRecords /\ r.kind = "reload" /\ r.pc = "prune" /\ r.cur = 0
  <2>1. catalog \in Catalogs /\ Known \ Listed(catalog) \subseteq Servers
    BY DEF Inv, StateOK, Known
  <2>q. QED
    BY <2>1, IdleIsTyped DEF Reloading, Idle, TaskRecords, Kinds, Labels
<1>2. /\ task' = [task EXCEPT ![t] = r]
      /\ UNCHANGED <<links, servers, catalog, timer, offered, phase>>
      /\ watch' \in BOOLEAN
    BY DEF Reload, WatchFires, Begin, Inv, StateOK
<1> HIDE DEF r
<1>3. Sound(t)'
  <2>1. task'[t] = r
    BY <1>2 DEF Inv, StateOK
  <2>q. QED
    BY <1>1, <2>1 DEF Sound
<1>q. QED
    BY <1>1, <1>2, <1>3, TaskOnly, Parts

LEMMA RetryBegins ==
    ASSUME Inv, NEW t \in Tasks, RetryFires(t)
    PROVE  Inv'
<1> DEFINE r == [Idle EXCEPT !.kind = "retry", !.pc = "retry", !.todo = {servers[s] : s \in Known}]
<1>1. r \in TaskRecords /\ r.kind = "retry" /\ r.pc = "retry" /\ r.cur = 0
  <2>1. {servers[s] : s \in Known} \subseteq Ids
    BY Parts DEF Known
  <2>q. QED
    BY <2>1, IdleIsTyped DEF Idle, TaskRecords, Kinds, Labels
<1>2. /\ task' = [task EXCEPT ![t] = r]
      /\ UNCHANGED <<links, servers, catalog, watch, offered, phase>>
      /\ timer' = FALSE
    BY DEF RetryFires, Begin
<1> HIDE DEF r
<1>3. Sound(t)'
  <2>1. task'[t] = r
    BY <1>2 DEF Inv, StateOK
  <2>q. QED
    BY <1>1, <2>1 DEF Sound
<1>q. QED
    BY <1>1, <1>2, <1>3, TaskOnly, Parts

LEMMA DestroyBegins ==
    ASSUME Inv, NEW t \in Tasks, Destroy(t)
    PROVE  Inv'
<1> DEFINE r == [Idle EXCEPT !.kind = "destroy", !.pc = "closing", !.todo = Servers]
<1>1. r \in TaskRecords /\ r.kind = "destroy" /\ r.pc = "closing" /\ r.cur = 0
    BY IdleIsTyped DEF Idle, TaskRecords, Kinds, Labels
<1>2. /\ task' = [task EXCEPT ![t] = r]
      /\ UNCHANGED <<links, servers, catalog, offered>>
      /\ timer' = FALSE /\ watch' = FALSE /\ phase' = "down"
    BY DEF Destroy, Begin
<1> HIDE DEF r
<1>3. Sound(t)'
  <2>1. task'[t] = r
    BY <1>2 DEF Inv, StateOK
  <2>q. QED
    BY <1>1, <1>2, <2>1 DEF Sound
<1>q. QED
    BY <1>1, <1>2, <1>3, TaskOnly, Parts

\* The ends of the loops.
LEMMA LoopEnds ==
    ASSUME Inv, NEW t \in Tasks, PruneEnds(t) \/ VisitEnds(t) \/ RetryEnds(t)
    PROVE  Inv'
<1>1. CASE PruneEnds(t)
  <2> DEFINE r == [task[t] EXCEPT !.pc = "visit", !.todo = Listed(task[t].cat)]
  <2>1. task[t] \in TaskRecords /\ task[t].kind = "reload"
    BY <1>1, Parts DEF PruneEnds, Sound
  <2>2. /\ r \in TaskRecords /\ r.pc = "visit" /\ r.kind = "reload" /\ r.cur = task[t].cur
        /\ \A s \in r.todo : r.cat[s] # Missing
    BY <2>1 DEF TaskRecords, Labels, Listed
  <2>3. task' = [task EXCEPT ![t] = r] /\ UNCHANGED <<catalog, servers, links, timer, watch, offered, phase>>
    BY <1>1 DEF PruneEnds, Inv, StateOK
  <2> HIDE DEF r
  <2>4. Sound(t)'
    <3>1. task'[t] = r
      BY <2>3 DEF Inv, StateOK
    <3>q. QED
      BY <2>2, <3>1 DEF Sound
  <2>q. QED
    BY <2>2, <2>3, <2>4, TaskOnly, Parts
<1>2. CASE VisitEnds(t) \/ RetryEnds(t)
  <2>1. /\ task' = [task EXCEPT ![t] = Idle]
        /\ UNCHANGED <<catalog, servers, links, timer, watch>>
        /\ phase' = phase \/ (phase = "boot" /\ phase' = "up")
        /\ offered' = offered \/ offered' = Refreshed(servers, links)
    <3>1. CASE VisitEnds(t)
      BY <3>1 DEF VisitEnds, Notify
    <3>2. CASE RetryEnds(t)
      BY <3>2 DEF RetryEnds, Notify
    <3>q. QED
      BY <1>2, <3>1, <3>2
  <2>2. Sound(t)'
    <3>1. task'[t] = Idle
      BY <2>1 DEF Inv, StateOK
    <3>q. QED
      BY <3>1 DEF Sound, Idle
  <2>3. Idle.cur = 0 /\ Idle \in TaskRecords
    BY IdleIsTyped DEF Idle
  <2>q. QED
    BY <2>1, <2>2, <2>3, TaskOnly, Parts
<1>q. QED
    BY <1>1, <1>2

\* Back at the head of its loop.
LEMMA LoopRecord ==
    ASSUME Inv, NEW t \in Tasks, NEW label \in Labels, Loop(t, label)
    PROVE  \E r \in TaskRecords :
             /\ task' = [task EXCEPT ![t] = r] /\ task'[t] = r
             /\ r.pc = label /\ r.cur = 0 /\ r.kind = task[t].kind
             /\ r.todo = task[t].todo /\ r.cat = task[t].cat
<1> DEFINE r == [task[t] EXCEPT !.pc = label, !.srv = Missing, !.cur = 0, !.io = FALSE]
<1>1. task[t] \in TaskRecords /\ 0 \in Ids /\ task \in [Tasks -> TaskRecords]
    BY Parts DEF StateOK
<1>2. /\ r \in TaskRecords
      /\ r.pc = label /\ r.cur = 0 /\ r.kind = task[t].kind
      /\ r.todo = task[t].todo /\ r.cat = task[t].cat
    BY <1>1 DEF TaskRecords
<1>3. task' = [task EXCEPT ![t] = r]
    BY <1>1 DEF Loop
<1> HIDE DEF r
<1>4. task'[t] = r
    BY <1>1, <1>3
<1>q. QED
    BY <1>2, <1>3, <1>4

LEMMA ClosesIsBoolean == ASSUME NEW l PROVE Closes(l) \in BOOLEAN
BY Zenon DEF Closes

\* What a disconnect does to the tables.
LEMMA DisconnectGrows ==
    ASSUME Inv, NEW l \in Ids, l <= Len(links), links' = Disconnected(l), servers' = servers
    PROVE  Grows
<1>1. SameBut(links', l)
    BY DisconnectedTable, Parts
<1>q. QED
    BY <1>1, RewriteGrows, Parts

LEMMA BareGrows ==
    ASSUME Inv, NEW l \in Ids, l <= Len(links), links' = Bare(l),
           \/ servers' = servers
           \/ \E s \in Servers : servers' = [servers EXCEPT ![s] = 0]
    PROVE  Grows
<1>1. SameBut(links', l)
    BY BareTable, Parts
<1>q. QED
    BY <1>1, RewriteGrows, Parts

LEMMA PruneKeeps ==
    ASSUME Inv, NEW t \in Tasks, NEW s \in Servers, Prune(t, s)
    PROVE  Inv'
<1> DEFINE r == [task[t] EXCEPT !.todo = @ \ {s}, !.srv = s, !.cur = servers[s],
                                !.io = Closes(servers[s]), !.pc = "pruning"]
<1>1. /\ task[t] \in TaskRecords /\ servers[s] \in Ids /\ servers[s] \in 0..Len(links)
      /\ task[t].kind = "reload" /\ task \in [Tasks -> TaskRecords]
    BY Parts DEF Prune, Sound, StateOK
<1>2. /\ r \in TaskRecords /\ r.pc = "pruning" /\ r.kind = "reload" /\ r.cur = servers[s]
      /\ r.srv = s
    BY <1>1, ClosesIsBoolean DEF TaskRecords, Labels
<1>3. task' = [task EXCEPT ![t] = r]
    BY <1>1 DEF Prune
<1>4. /\ links' = Disconnected(servers[s])
      /\ UNCHANGED <<catalog, servers, timer, watch, offered, phase>>
    BY DEF Prune
<1> HIDE DEF r
<1>5. Grows
    BY <1>1, <1>4, DisconnectGrows, Parts
<1>6. Sound(t)'
  <2>1. task'[t] = r
    BY <1>1, <1>3
  <2>2. servers[s] # 0 => links'[servers[s]].server = s
    BY <1>4, <1>5 DEF Grows, Tables, Known
  <2>q. QED
    BY <1>2, <2>1, <2>2 DEF Sound
<1>7. r.cur \in 0..Len(links')
    BY <1>1, <1>2, <1>5, Parts DEF Grows, Tables
<1>q. QED
    BY <1>2, <1>3, <1>4, <1>5, <1>6, <1>7, TaskStep, Parts

LEMMA PrunedKeeps ==
    ASSUME Inv, NEW t \in Tasks, Pruned(t)
    PROVE  Inv'
<1>1. /\ task[t].kind = "reload" /\ task[t].srv \in Servers
      /\ task[t].cur \in Ids /\ task[t].cur <= Len(links)
    BY Parts DEF Pruned, Sound
<1>2. /\ links' = Bare(task[t].cur) /\ servers' = [servers EXCEPT ![task[t].srv] = 0]
      /\ UNCHANGED <<catalog, timer, watch, offered, phase>>
      /\ Loop(t, "prune")
    BY DEF Pruned
<1>3. Grows
    BY <1>1, <1>2, BareGrows
<1>4. PICK r \in TaskRecords :
             /\ task' = [task EXCEPT ![t] = r] /\ task'[t] = r
             /\ r.pc = "prune" /\ r.cur = 0 /\ r.kind = task[t].kind
             /\ r.todo = task[t].todo /\ r.cat = task[t].cat
    BY <1>2, LoopRecord DEF Labels
<1>5. Sound(t)'
    BY <1>1, <1>4 DEF Sound
<1>6. r.cur \in 0..Len(links')
    BY <1>3, <1>4 DEF Grows, Tables
<1>q. QED
    BY <1>2, <1>3, <1>4, <1>5, <1>6, TaskStep, Parts

LEMMA DisabledKeeps ==
    ASSUME Inv, NEW t \in Tasks, Disabled(t)
    PROVE  Inv'
<1> DEFINE l == task[t].cur
           o == [links[l] EXCEPT !.entry = Off, !.has = FALSE, !.state = "disabled"]
<1>1. /\ task[t].kind \in {"initialize", "reload"} /\ l \in 1..Len(links)
      /\ \A s \in task[t].todo : s \in Servers => task[t].cat[s] # Missing
    BY Parts DEF Disabled, Sound
<1>2. links[l] \in Links
    BY <1>1, Parts
<1>3. o \in Links /\ o.server = links[l].server
    BY <1>2 DEF Links
<1>4. /\ links' = [links EXCEPT ![l] = o]
      /\ UNCHANGED <<catalog, servers, timer, watch, offered, phase>>
      /\ Loop(t, "visit")
    BY <1>1, Parts DEF Disabled
<1> HIDE DEF l, o
<1>5. Grows
  <2>1. SameBut(links', l)
    BY <1>1, <1>3, <1>4, ObjectWritten, Parts
  <2>q. QED
    BY <1>4, <2>1, RewriteGrows, Parts
<1>6. PICK r \in TaskRecords :
             /\ task' = [task EXCEPT ![t] = r] /\ task'[t] = r
             /\ r.pc = "visit" /\ r.cur = 0 /\ r.kind = task[t].kind
             /\ r.todo = task[t].todo /\ r.cat = task[t].cat
    BY <1>4, LoopRecord DEF Labels
<1>7. Sound(t)'
    BY <1>1, <1>6 DEF Sound
<1>8. r.cur \in 0..Len(links')
    BY <1>5, <1>6 DEF Grows, Tables
<1>q. QED
    BY <1>4, <1>5, <1>6, <1>7, <1>8, TaskStep, Parts

\* A fresh object, failed or disabled, and its place in the map.
LEMMA FreshObject ==
    ASSUME Inv, NEW l, NEW objs, SameBut(objs, l), NEW s \in Servers,
           NEW e \in Entries \cup {Off}, NEW state \in {"connected", "disabled", "failed"},
           Put(objs, s, e, state)
    PROVE  /\ Grows /\ Len(links') \in 1..Len(links')
           /\ Len(links') = Len(links) + 1
           /\ \A i \in 1..Len(links) : links'[i] = objs[i]
           /\ links'[Len(links')].server = s /\ links'[Len(links')].entry = e
           /\ links'[Len(links')].state = state /\ ~links'[Len(links')].has
           /\ ~links'[Len(links')].held /\ ~links'[Len(links')].wire
           /\ servers' = [servers EXCEPT ![s] = Len(links')]
           /\ Len(links') \in Ids
<1> DEFINE r == [server |-> s, entry |-> e, state |-> state,
                 has |-> FALSE, held |-> FALSE, wire |-> FALSE]
<1>1. /\ r \in Links /\ r.server = s /\ r.entry = e /\ r.state = state
      /\ ~r.has /\ ~r.held /\ ~r.wire
    BY DEF Links
<1>2. Len(objs) < MaxLinks /\ links' = Append(objs, r) /\ servers' = [servers EXCEPT ![s] = Len(links')]
    BY DEF Put
<1>3. StateOK
    BY Parts
<1> HIDE DEF r
<1>4. Grows /\ Len(links') # 0
    BY <1>1, <1>2, <1>3, PutGrows
<1>5. /\ links' \in Seq(Links) /\ Len(links') = Len(links) + 1 /\ Len(links') <= MaxLinks
      /\ \A i \in 1..Len(links) : links'[i] = objs[i]
      /\ links'[Len(links')] = r
    BY <1>1, <1>2, <1>3, PutTable
<1>6. Len(links') \in Nat /\ MaxLinks \in Nat
    BY <1>5, Parts
<1>q. QED
    BY <1>1, <1>2, <1>4, <1>5, <1>6 DEF Ids

LEMMA VisitKeeps ==
    ASSUME Inv, NEW t \in Tasks, NEW s \in Servers, Visit(t, s)
    PROVE  Inv'
<1> DEFINE e == task[t].cat[s]
           l == servers[s]
<1>1. /\ task[t] \in TaskRecords /\ l \in Ids /\ l \in 0..Len(links)
      /\ task[t].kind \in {"initialize", "reload"} /\ task \in [Tasks -> TaskRecords]
      /\ \A j \in task[t].todo : j \in Servers => task[t].cat[j] # Missing
      /\ task[t].pc = "visit" /\ task[t].cur \in 0..Len(links)
    BY Parts DEF Visit, Sound, StateOK
<1>2. e \in Entries \cup {Off}
  <2>1. task[t].cat \in Catalogs
    BY <1>1 DEF TaskRecords
  <2>2. s \in task[t].todo
    BY DEF Visit
  <2>q. QED
    BY <1>1, <2>1, <2>2 DEF Catalogs
<1>3. UNCHANGED <<catalog, timer, watch, offered, phase>>
    BY DEF Visit
<1>4. ASSUME Grows, task' = [task EXCEPT ![t].todo = @ \ {s}] PROVE Inv'
  <2> DEFINE r == [task[t] EXCEPT !.todo = @ \ {s}]
  <2>1. /\ r \in TaskRecords /\ r.pc = "visit" /\ r.kind = task[t].kind /\ r.cur = task[t].cur
        /\ r.cat = task[t].cat /\ r.todo \subseteq task[t].todo
    BY <1>1 DEF TaskRecords
  <2>2. task' = [task EXCEPT ![t] = r]
    BY <1>1, <1>4
  <2> HIDE DEF r
  <2>3. Sound(t)'
    <3>1. task'[t] = r
      BY <1>1, <2>2
    <3>q. QED
      BY <1>1, <2>1, <3>1 DEF Sound
  <2>4. r.cur \in 0..Len(links')
    <3>1. Len(links) \in Nat /\ Len(links') \in Nat /\ Len(links) <= Len(links')
      BY <1>4, Parts DEF Grows, Tables
    <3>q. QED
      BY <1>1, <2>1, <3>1
  <2>q. QED
    BY <1>3, <1>4, <2>1, <2>2, <2>3, <2>4, TaskStep, Parts
<1>5. CASE Put(links, s, Off, "disabled") /\ task' = [task EXCEPT ![t].todo = @ \ {s}]
  <2>1. SameBut(links, 0)
    BY Parts DEF SameBut
  <2>2. Grows
    BY <1>5, <2>1, FreshObject
  <2>q. QED
    BY <1>4, <1>5, <2>2
<1>6. CASE task' = [task EXCEPT ![t].todo = @ \ {s}] /\ UNCHANGED <<servers, links>>
  <2>1. Grows
    BY <1>6, SameGrows, Parts
  <2>q. QED
    BY <1>4, <1>6, <2>1
<1>7. CASE /\ ~(e = Off /\ l = 0)
           /\ links' = Disconnected(l)
           /\ task' = [task EXCEPT ![t].todo = @ \ {s}, ![t].srv = s, ![t].cur = l,
                                   ![t].io = Closes(l),
                                   ![t].pc = IF e = Off THEN "disabling" ELSE "replacing"]
           /\ UNCHANGED servers
  <2> DEFINE r == [task[t] EXCEPT !.todo = @ \ {s}, !.srv = s, !.cur = l,
                                  !.io = Closes(l),
                                  !.pc = IF e = Off THEN "disabling" ELSE "replacing"]
  <2>1. r \in TaskRecords
    BY <1>1, ClosesIsBoolean DEF TaskRecords, Labels
  <2>2. /\ r.pc = IF e = Off THEN "disabling" ELSE "replacing"
        /\ r.kind = task[t].kind /\ r.cur = l /\ r.srv = s
        /\ r.cat = task[t].cat /\ r.todo \subseteq task[t].todo
    BY <1>1 DEF TaskRecords
  <2>3. task' = [task EXCEPT ![t] = r]
    BY <1>1, <1>7
  <2> HIDE DEF r
  <2>4. Grows
    BY <1>1, <1>7, DisconnectGrows, Parts
  <2>5. Sound(t)'
    <3>1. task'[t] = r
      BY <1>1, <2>3
    <3>2. l # 0 => links'[l].server = s
      BY <1>7, <2>4 DEF Grows, Tables, Known
    <3>3. e = Off => l # 0
      BY <1>7
    <3>4. e # Off => e \in Entries
      BY <1>2
    <3> HIDE DEF l
    <3>5. r.pc = "replacing" => r.cat[r.srv] \in Entries
      BY <2>2, <3>4
    <3>q. QED
      BY <1>1, <2>2, <3>1, <3>2, <3>3, <3>5 DEF Sound
  <2>6. r.cur \in 0..Len(links')
    <3>1. Len(links) \in Nat /\ Len(links') \in Nat /\ Len(links) <= Len(links')
      BY <2>4, Parts DEF Grows, Tables
    <3>q. QED
      BY <1>1, <2>2, <3>1
  <2>q. QED
    BY <1>3, <2>1, <2>3, <2>4, <2>5, <2>6, TaskStep, Parts
<1>q. QED
    BY <1>5, <1>6, <1>7 DEF Visit, Released

\* A connection is attempted.
LEMMA AttemptKeeps ==
    ASSUME Inv, NEW t \in Tasks, NEW l, NEW objs, SameBut(objs, l), NEW s \in Servers,
           NEW e \in Entries \cup {Off}, Put(objs, s, e, "failed"),
           UNCHANGED <<catalog, timer, watch, offered, phase>>,
           NEW r \in TaskRecords, r.pc = "connecting", r.cur = Len(links'),
           r.kind \in {"initialize", "reload", "reconnect", "retry"},
           r.kind = "retry" => r.did,
           r.kind \in {"initialize", "reload"} =>
             \A j \in r.todo : j \in Servers => r.cat[j] # Missing,
           task' = [task EXCEPT ![t] = r]
    PROVE  Inv'
<1>1. Grows /\ Len(links') \in 1..Len(links')
    BY FreshObject
<1>2. task'[t] = r
    BY DEF Inv, StateOK
<1>3. r.cur \in 0..Len(links') /\ r.cur # 0
    BY <1>1
<1>4. Sound(t)'
    BY <1>2, <1>3 DEF Sound
<1>q. QED
    BY <1>1, <1>3, <1>4, TaskStep, Parts

LEMMA ReplacedKeeps ==
    ASSUME Inv, NEW t \in Tasks, Replaced(t)
    PROVE  Inv'
<1> DEFINE s == task[t].srv
           e == task[t].cat[s]
           r == [task[t] EXCEPT !.pc = "connecting", !.io = FALSE, !.cur = Len(links')]
<1>1. /\ task[t] \in TaskRecords /\ s \in Servers /\ e \in Entries
      /\ task[t].kind \in {"initialize", "reload"}
      /\ \A j \in task[t].todo : j \in Servers => task[t].cat[j] # Missing
    BY Parts DEF Replaced, Sound
<1>2. SameBut(links, 0) /\ Put(links, s, e, "failed")
    BY Parts DEF Replaced, Connect, SameBut
<1>3. Len(links') \in Ids
    BY <1>1, <1>2, FreshObject
<1>4. /\ r \in TaskRecords /\ r.pc = "connecting" /\ r.cur = Len(links')
      /\ r.kind = task[t].kind /\ r.todo = task[t].todo /\ r.cat = task[t].cat
    BY <1>1, <1>3 DEF TaskRecords, Labels
<1>5. /\ task' = [task EXCEPT ![t] = r]
      /\ UNCHANGED <<catalog, timer, watch, offered, phase>>
    BY DEF Replaced, Inv, StateOK
<1> HIDE DEF s, e, r
<1>q. QED
    BY <1>1, <1>2, <1>4, <1>5, AttemptKeeps

LEMMA RejoinKeeps ==
    ASSUME Inv, NEW t \in Tasks, Rejoin(t)
    PROVE  Inv'
<1> DEFINE l == task[t].cur
           s == task[t].srv
           e == links[l].entry
           r == [task[t] EXCEPT !.pc = "connecting", !.io = FALSE, !.cur = Len(links')]
<1>1. /\ task[t] \in TaskRecords /\ s \in Servers /\ task[t].kind = "reconnect"
      /\ l \in Ids /\ l \in 1..Len(links)
    BY Parts DEF Rejoin, Sound
<1>2. e \in Entries \cup {Off}
  <2>1. links[l] \in Links
    BY <1>1, Parts
  <2>q. QED
    BY <2>1 DEF Links
<1>3. SameBut(Bare(l), l) /\ Put(Bare(l), s, e, "failed")
  <2>1. l <= Len(links)
    BY <1>1
  <2>q. QED
    BY <1>1, <2>1, Parts, BareTable DEF Rejoin, Connect
<1>4. Len(links') \in Ids
    BY <1>1, <1>2, <1>3, FreshObject
<1>5. /\ r \in TaskRecords /\ r.pc = "connecting" /\ r.cur = Len(links')
      /\ r.kind = task[t].kind
    BY <1>1, <1>4 DEF TaskRecords, Labels
<1>6. /\ task' = [task EXCEPT ![t] = r]
      /\ UNCHANGED <<catalog, timer, watch, offered, phase>>
    BY DEF Rejoin, Inv, StateOK
<1> HIDE DEF l, s, e, r
<1>q. QED
    BY <1>1, <1>2, <1>3, <1>5, <1>6, AttemptKeeps

LEMMA RetryNextKeeps ==
    ASSUME Inv, NEW t \in Tasks, NEW l \in DOMAIN links, RetryNext(t, l)
    PROVE  Inv'
<1>1. /\ task[t] \in TaskRecords /\ task[t].kind = "retry" /\ task[t].pc = "retry"
      /\ links[l] \in Links /\ l \in 1..Len(links) /\ task \in [Tasks -> TaskRecords]
    BY Parts DEF RetryNext, Sound, StateOK
<1>2. links[l].server \in Servers /\ links[l].entry \in Entries \cup {Off}
    BY <1>1 DEF Links
<1>3. UNCHANGED <<catalog, timer, watch, offered, phase>>
    BY DEF RetryNext
<1>4. CASE /\ Connect(links, links[l].server, links[l].entry)
           /\ task' = [task EXCEPT ![t].pc = "connecting", ![t].io = FALSE, ![t].cur = Len(links'),
                                   ![t].todo = @ \ {l}, ![t].did = TRUE]
  <2> DEFINE r == [task[t] EXCEPT !.pc = "connecting", !.io = FALSE, !.cur = Len(links'),
                                  !.todo = @ \ {l}, !.did = TRUE]
  <2>1. SameBut(links, 0) /\ Put(links, links[l].server, links[l].entry, "failed")
    BY <1>4, Parts DEF Connect, SameBut
  <2>2. Len(links') \in Ids
    BY <1>2, <2>1, FreshObject
  <2>3. /\ r \in TaskRecords /\ r.pc = "connecting" /\ r.cur = Len(links')
        /\ r.kind = "retry" /\ r.did
    BY <1>1, <2>2 DEF TaskRecords, Labels
  <2>4. task' = [task EXCEPT ![t] = r]
    BY <1>1, <1>4
  <2> HIDE DEF r
  <2>q. QED
    BY <1>2, <1>3, <2>1, <2>3, <2>4, AttemptKeeps
<1>5. CASE task' = [task EXCEPT ![t].todo = @ \ {l}] /\ UNCHANGED <<servers, links>>
  <2> DEFINE r == [task[t] EXCEPT !.todo = @ \ {l}]
  <2>1. r \in TaskRecords /\ r.pc = "retry" /\ r.kind = "retry" /\ r.cur = task[t].cur
    BY <1>1 DEF TaskRecords
  <2>2. task' = [task EXCEPT ![t] = r]
    BY <1>1, <1>5
  <2> HIDE DEF r
  <2>3. Sound(t)'
    <3>1. task'[t] = r
      BY <1>1, <2>2
    <3>q. QED
      BY <2>1, <3>1 DEF Sound
  <2>q. QED
    BY <1>3, <1>5, <2>1, <2>2, <2>3, TaskOnly, Parts
<1>q. QED
    BY <1>4, <1>5 DEF RetryNext

\* An object is written, and nobody's place in it.
LEMMA WriteGrows ==
    ASSUME Inv, NEW l \in 1..Len(links), NEW o \in Links, o.server = links[l].server,
           links' = [links EXCEPT ![l] = o], servers' = servers
    PROVE  Grows
<1>1. SameBut(links', l)
    BY ObjectWritten, Parts
<1>q. QED
    BY <1>1, RewriteGrows, Parts

LEMMA ConnectOpensKeeps ==
    ASSUME Inv, NEW t \in Tasks, ConnectOpens(t)
    PROVE  Inv'
<1> DEFINE l == task[t].cur
           o == [links[l] EXCEPT !.held = TRUE, !.wire = TRUE]
           r == [task[t] EXCEPT !.pc = "listing"]
<1>1. /\ task[t] \in TaskRecords /\ task[t].pc = "connecting" /\ Sound(t)
      /\ l \in 1..Len(links) /\ links[l] \in Links /\ task \in [Tasks -> TaskRecords]
  <2>1. task[t].pc = "connecting"
    BY DEF ConnectOpens
  <2>2. l \in 1..Len(links) /\ Sound(t)
    BY <2>1, Parts DEF Sound
  <2>q. QED
    BY <2>1, <2>2, Parts DEF StateOK
<1>2. o \in Links /\ o.server = links[l].server
    BY <1>1 DEF Links
<1>3. /\ links' = [links EXCEPT ![l] = o] /\ task' = [task EXCEPT ![t] = r]
      /\ UNCHANGED <<catalog, servers, timer, watch, offered, phase>>
  <2>1. links' = [links EXCEPT ![l].held = TRUE, ![l].wire = TRUE]
    BY DEF ConnectOpens
  <2>2. links \in Seq(Links)
    BY Parts
  <2>q. QED
    BY <1>1, <2>1, <2>2 DEF ConnectOpens
<1>4. /\ r \in TaskRecords /\ r.pc = "listing" /\ r.kind = task[t].kind /\ r.cur = l
      /\ r.did = task[t].did /\ r.todo = task[t].todo /\ r.cat = task[t].cat
    BY <1>1 DEF TaskRecords, Labels
<1> HIDE DEF l, o, r
<1>5. Grows
    BY <1>1, <1>2, <1>3, WriteGrows
<1>6. Sound(t)'
  <2>1. task'[t] = r
    BY <1>1, <1>3
  <2>q. QED
    BY <1>1, <1>4, <2>1 DEF Sound, l
<1>7. r.cur \in 0..Len(links')
    BY <1>1, <1>4, <1>5, Parts DEF Grows, Tables
<1>q. QED
    BY <1>3, <1>4, <1>5, <1>6, <1>7, TaskStep, Parts

\* What follows a connect, however it ended.
LEMMA SettleKeeps ==
    ASSUME Inv, Grows, NEW t \in Tasks, task[t].pc \in {"connecting", "listing"}, Settle(t),
           timer' \in BOOLEAN
    PROVE  Inv'
<1> DEFINE r == Resumed(t)
<1>1. task[t] \in TaskRecords /\ Sound(t) /\ task \in [Tasks -> TaskRecords]
    BY Parts DEF StateOK
<1>2. task' = [task EXCEPT ![t] = r] /\ UNCHANGED <<catalog, servers, watch, phase>>
    BY DEF Settle
<1>3. offered' = offered \/ offered' = Refreshed(servers', links')
    BY DEF Settle, Notify
<1>4. CASE task[t].kind = "reconnect"
  <2>1. r = Idle
    BY <1>4 DEF Resumed
  <2>2. Idle \in TaskRecords /\ Idle.cur = 0 /\ Idle.pc = "idle" /\ Idle.kind = "none"
    BY IdleIsTyped DEF Idle
  <2> HIDE DEF r
  <2>3. task'[t] = Idle
    BY <1>1, <1>2, <2>1
  <2>4. Sound(t)'
    BY <2>2, <2>3 DEF Sound
  <2>5. Idle.cur \in 0..Len(links')
    BY <2>2 DEF Grows, Tables
  <2>q. QED
    BY <1>2, <1>3, <2>1, <2>2, <2>4, <2>5, TaskStep, Parts
<1>5. CASE task[t].kind # "reconnect"
  <2>1. task[t].kind \in {"initialize", "reload", "retry"}
    BY <1>1, <1>5 DEF Sound
  <2>2. r = [task[t] EXCEPT !.pc = IF task[t].kind = "retry" THEN "retry" ELSE "visit",
                            !.srv = Missing, !.cur = 0, !.io = FALSE]
    BY <1>5 DEF Resumed
  <2>3. /\ r \in TaskRecords /\ r.cur = 0 /\ r.kind = task[t].kind
        /\ r.pc = IF task[t].kind = "retry" THEN "retry" ELSE "visit"
        /\ r.todo = task[t].todo /\ r.cat = task[t].cat
    BY <1>1, <2>2, Parts DEF TaskRecords, Labels
  <2> HIDE DEF r
  <2>4. task'[t] = r
    BY <1>1, <1>2
  <2>5. Sound(t)'
    BY <1>1, <2>1, <2>3, <2>4 DEF Sound
  <2>6. r.cur \in 0..Len(links')
    BY <2>3 DEF Grows, Tables
  <2>q. QED
    BY <1>2, <1>3, <2>3, <2>5, <2>6, TaskStep, Parts
<1>q. QED
    BY <1>4, <1>5

LEMMA ConnectEndsKeeps ==
    ASSUME Inv, NEW t \in Tasks, ConnectFails(t) \/ ConnectSucceeds(t)
    PROVE  Inv'
<1> DEFINE l == task[t].cur
           failed == [links[l] EXCEPT !.has = FALSE, !.state = "failed"]
           live == [links[l] EXCEPT !.has = TRUE, !.state = "connected"]
<1>1. task[t].pc \in {"connecting", "listing"}
    BY DEF ConnectFails, ConnectSucceeds
<1>2. l \in 1..Len(links) /\ links[l] \in Links
  <2>1. l # 0
    BY <1>1, Parts DEF Sound
  <2>q. QED
    BY <2>1, Parts
<1>3. /\ failed \in Links /\ failed.server = links[l].server
      /\ live \in Links /\ live.server = links[l].server
    BY <1>2 DEF Links
<1>4. /\ links' = [links EXCEPT ![l] = failed] \/ links' = [links EXCEPT ![l] = live]
      /\ Settle(t) /\ servers' = servers /\ timer' \in BOOLEAN
  <2>1. CASE ConnectFails(t)
    <3>1. links' = [links EXCEPT ![l].has = FALSE, ![l].state = "failed"]
      BY <2>1 DEF ConnectFails
    <3>q. QED
      BY <1>2, <2>1, <3>1, Parts DEF ConnectFails, ScheduleRetry, Settle
  <2>2. CASE ConnectSucceeds(t)
    <3>1. links' = [links EXCEPT ![l].has = TRUE, ![l].state = "connected"]
      BY <2>2 DEF ConnectSucceeds
    <3>q. QED
      BY <1>2, <2>2, <3>1, Parts DEF ConnectSucceeds, Settle
  <2>q. QED
    BY <2>1, <2>2
<1> HIDE DEF l, failed, live
<1>5. Grows
    BY <1>2, <1>3, <1>4, WriteGrows
<1>q. QED
    BY <1>1, <1>4, <1>5, SettleKeeps

\* A connection reports that it is gone.
LEMMA UnavailableKeeps ==
    ASSUME Inv, NEW l \in DOMAIN links, LinkDrops(l) \/ LinkErrors(l)
    PROVE  Inv'
<1> DEFINE k == [links[l] EXCEPT !.wire = FALSE, !.held = FALSE]
           n == [links[l] EXCEPT !.held = FALSE]
           x == [k EXCEPT !.has = FALSE, !.state = "failed"]
           y == [n EXCEPT !.has = FALSE, !.state = "failed"]
<1>1. l \in 1..Len(links) /\ links[l] \in Links /\ links \in Seq(Links)
    BY Parts
<1>2. /\ k \in Links /\ k.server = links[l].server /\ n \in Links /\ n.server = links[l].server
    BY <1>1 DEF Links
<1>3. /\ x \in Links /\ x.server = links[l].server /\ y \in Links /\ y.server = links[l].server
    BY <1>2 DEF Links
<1>4. \E o \in {k, n, x, y} : links' = [links EXCEPT ![l] = o]
  <2>1. CASE LinkDrops(l)
    <3>1. [links EXCEPT ![l].wire = FALSE, ![l].held = FALSE] = [links EXCEPT ![l] = k]
      BY <1>1
    <3>2. [[links EXCEPT ![l] = k] EXCEPT ![l].has = FALSE, ![l].state = "failed"] = [links EXCEPT ![l] = x]
      BY <1>1, <1>2
    <3> HIDE DEF k, n, x, y
    <3>q. QED
      BY <2>1, <3>1, <3>2 DEF LinkDrops, Unavailable
  <2>2. CASE LinkErrors(l)
    <3>1. [links EXCEPT ![l].held = FALSE] = [links EXCEPT ![l] = n]
      BY <1>1
    <3>2. [[links EXCEPT ![l] = n] EXCEPT ![l].has = FALSE, ![l].state = "failed"] = [links EXCEPT ![l] = y]
      BY <1>1, <1>2
    <3> HIDE DEF k, n, x, y
    <3>q. QED
      BY <2>2, <3>1, <3>2 DEF LinkErrors, Unavailable
  <2>q. QED
    BY <2>1, <2>2
<1> HIDE DEF k, n, x, y
<1>5. /\ UNCHANGED <<catalog, watch, task, phase, servers>> /\ timer' \in BOOLEAN
      /\ offered' = offered \/ offered' = Refreshed(servers', links')
    BY Parts DEF LinkDrops, LinkErrors, Unavailable, ScheduleRetry, Notify
<1>6. Grows
    BY <1>1, <1>2, <1>3, <1>4, <1>5, WriteGrows
<1>7. task' \in [Tasks -> TaskRecords] /\ \A u \in Tasks : task'[u] = task[u]
    BY <1>5 DEF Inv, StateOK
<1>q. QED
    BY <1>5, <1>6, <1>7, Framed, Parts

LEMMA ReconnectBegins ==
    ASSUME Inv, NEW t \in Tasks, NEW s \in Servers, Reconnect(t, s)
    PROVE  Inv'
<1> DEFINE l == servers[s]
           r == [Idle EXCEPT !.kind = "reconnect", !.pc = "rejoining",
                             !.srv = s, !.cur = l, !.io = Closes(l)]
<1>1. l \in Ids /\ l \in 0..Len(links) /\ l # 0
    BY Parts DEF Reconnect
<1>2. /\ r \in TaskRecords /\ r.kind = "reconnect" /\ r.pc = "rejoining" /\ r.cur = l /\ r.srv = s
    BY <1>1, IdleIsTyped, ClosesIsBoolean DEF Idle, TaskRecords, Kinds, Labels
<1>3. /\ task' = [task EXCEPT ![t] = r] /\ links' = Disconnected(l)
      /\ UNCHANGED <<catalog, servers, timer, watch, offered, phase>>
    BY DEF Reconnect, Begin
<1> HIDE DEF r
<1>4. Grows
    BY <1>1, <1>3, DisconnectGrows, Parts
<1>5. Sound(t)'
  <2>1. task'[t] = r
    BY <1>3 DEF Inv, StateOK
  <2>2. links'[l].server = s
    BY <1>1, <1>3, <1>4 DEF Grows, Tables, Known
  <2>q. QED
    BY <1>1, <1>2, <2>1, <2>2 DEF Sound
<1>6. r.cur \in 0..Len(links')
    BY <1>1, <1>2, <1>4, Parts DEF Grows, Tables
<1>q. QED
    BY <1>2, <1>3, <1>4, <1>5, <1>6, TaskStep, Parts

LEMMA CloseKeeps ==
    ASSUME Inv, NEW t \in Tasks, NEW s \in Servers, Close(t, s)
    PROVE  Inv'
<1> DEFINE l == servers[s]
           r == [task[t] EXCEPT !.todo = @ \ {s}, !.cur = l, !.pc = "closed", !.io = Closes(l)]
<1>1. /\ task[t] \in TaskRecords /\ l \in Ids /\ l \in 0..Len(links)
      /\ task[t].kind = "destroy" /\ phase = "down" /\ task \in [Tasks -> TaskRecords]
    BY Parts DEF Close, Sound, StateOK
<1>2. r \in TaskRecords /\ r.pc = "closed" /\ r.kind = "destroy" /\ r.cur = l
    BY <1>1, ClosesIsBoolean DEF TaskRecords, Labels
<1>3. /\ task' = [task EXCEPT ![t] = r] /\ links' = Disconnected(l)
      /\ UNCHANGED <<catalog, servers, timer, watch, offered, phase>>
    BY <1>1 DEF Close
<1> HIDE DEF r
<1>4. Grows
    BY <1>1, <1>3, DisconnectGrows, Parts
<1>5. Sound(t)'
  <2>1. task'[t] = r
    BY <1>1, <1>3
  <2>q. QED
    BY <1>1, <1>2, <1>3, <2>1 DEF Sound
<1>6. r.cur \in 0..Len(links')
    BY <1>1, <1>2, <1>4, Parts DEF Grows, Tables
<1>q. QED
    BY <1>2, <1>3, <1>4, <1>5, <1>6, TaskStep, Parts

LEMMA ClosedKeeps ==
    ASSUME Inv, NEW t \in Tasks, Closed(t)
    PROVE  Inv'
<1>1. /\ task[t].kind = "destroy" /\ phase = "down"
      /\ task[t].cur \in Ids /\ task[t].cur <= Len(links)
    BY Parts DEF Closed, Sound
<1>2. /\ links' = Bare(task[t].cur)
      /\ UNCHANGED <<catalog, servers, timer, watch, offered, phase>>
      /\ Loop(t, "closing")
    BY DEF Closed
<1>3. Grows
    BY <1>1, <1>2, BareGrows
<1>4. PICK r \in TaskRecords :
             /\ task' = [task EXCEPT ![t] = r] /\ task'[t] = r
             /\ r.pc = "closing" /\ r.cur = 0 /\ r.kind = task[t].kind
             /\ r.todo = task[t].todo /\ r.cat = task[t].cat
    BY <1>2, LoopRecord DEF Labels
<1>5. Sound(t)'
    BY <1>1, <1>2, <1>4 DEF Sound
<1>6. r.cur \in 0..Len(links')
    BY <1>3, <1>4 DEF Grows, Tables
<1>q. QED
    BY <1>2, <1>3, <1>4, <1>5, <1>6, TaskStep, Parts

LEMMA CloseEndsKeeps ==
    ASSUME Inv, NEW t \in Tasks, CloseEnds(t)
    PROVE  Inv'
<1>1. /\ servers' = [s \in Servers |-> 0] /\ task' = [task EXCEPT ![t] = Idle]
      /\ UNCHANGED <<catalog, links, timer, watch, offered, phase>>
    BY DEF CloseEnds
<1>2. SameBut(links', 0)
    BY <1>1, Parts DEF SameBut
<1>3. Grows
    BY <1>1, <1>2, RewriteGrows, Parts
<1>4. Sound(t)'
  <2>1. task'[t] = Idle
    BY <1>1 DEF Inv, StateOK
  <2>q. QED
    BY <2>1 DEF Sound, Idle
<1>5. Idle.cur = 0 /\ Idle \in TaskRecords /\ 0 \in 0..Len(links')
    BY <1>1, IdleIsTyped, Parts DEF Idle
<1>q. QED
    BY <1>1, <1>3, <1>4, <1>5, TaskStep, Parts

LEMMA EditKeeps ==
    ASSUME Inv, NEW s \in Servers, NEW e \in Entries \cup {Missing, Off}, EditCatalog(s, e)
    PROVE  Inv'
<1>1. /\ catalog' = [catalog EXCEPT ![s] = e] /\ watch' = TRUE
      /\ UNCHANGED <<servers, links, timer, task, offered, phase>>
    BY DEF EditCatalog
<1>2. catalog' \in Catalogs
    BY <1>1, Parts DEF Catalogs
<1>3. Grows
    BY <1>1, SameGrows, Parts
<1>4. task' \in [Tasks -> TaskRecords] /\ \A u \in Tasks : task'[u] = task[u]
    BY <1>1 DEF Inv, StateOK
<1>q. QED
    BY <1>1, <1>2, <1>3, <1>4, Framed, Parts

LEMMA InvInit == Init => Inv
<1> SUFFICES ASSUME Init PROVE Inv
    OBVIOUS
<1> DEFINE boots == [Idle EXCEPT !.kind = "initialize", !.pc = "visit",
                                 !.cat = catalog, !.todo = Listed(catalog)]
<1>1. /\ catalog \in Catalogs /\ MaxLinks \in Nat /\ 0 \in Ids
      /\ links = <<>> /\ servers = [s \in Servers |-> 0]
      /\ timer = FALSE /\ watch = FALSE /\ phase = "boot"
      /\ offered = [s \in Servers |-> Missing]
    BY McpAssumption DEF Init, Ids
<1>2. Idle \in TaskRecords /\ Idle.cur = 0 /\ Idle.pc = "idle" /\ Idle.kind = "none"
    BY <1>1 DEF Idle, TaskRecords, Catalogs, Kinds, Labels
<1>3. /\ boots \in TaskRecords /\ boots.cur = 0 /\ boots.pc = "visit" /\ boots.kind = "initialize"
      /\ \A s \in boots.todo : boots.cat[s] # Missing
    BY <1>1 DEF Idle, TaskRecords, Catalogs, Kinds, Labels, Listed
<1>4. \E b \in Tasks : task = [t \in Tasks |-> IF t = b THEN boots ELSE Idle]
    BY DEF Init
<1> HIDE DEF boots
<1>5. task \in [Tasks -> TaskRecords] /\ \A t \in Tasks : task[t] \in {boots, Idle}
    BY <1>2, <1>3, <1>4
<1>6. \A t \in Tasks : task[t].cur = 0 /\ Sound(t)
    BY <1>2, <1>3, <1>5 DEF Sound
<1>7. StateOK
  <2>1. links \in Seq(Links) /\ Len(links) = 0
    BY <1>1
  <2>2. 0 <= MaxLinks /\ 0 \in 0..Len(links)
    BY <1>1, <2>1
  <2>3. servers \in [Servers -> 0..Len(links)] /\ Known = {}
    BY <1>1, <2>2 DEF Known
  <2>4. offered \in [Servers -> Entries \cup {Missing, Off}]
    BY <1>1
  <2>5. \A t \in Tasks : task[t].cur <= Len(links)
    BY <1>6, <2>1
  <2>q. QED
    BY <1>1, <1>5, <2>1, <2>2, <2>3, <2>4, <2>5 DEF StateOK
<1>q. QED
    BY <1>6, <1>7 DEF Inv

\* Every step of a task.
LEMMA ProceedKeeps ==
    ASSUME Inv, NEW t \in Tasks, Proceed(t)
    PROVE  Inv'
BY PruneKeeps, PrunedKeeps, LoopEnds, DisabledKeeps, ReplacedKeeps, VisitKeeps, ConnectOpensKeeps,
   ConnectEndsKeeps, RejoinKeeps, ClosedKeeps, CloseEndsKeeps, CloseKeeps, RetryNextKeeps
   DEF Proceed

LEMMA StartKeeps ==
    ASSUME Inv, NEW t \in Tasks, Start(t)
    PROVE  Inv'
BY ReloadBegins, RetryBegins, DestroyBegins, ReconnectBegins DEF Start

LEMMA InvNext == Inv /\ [Next]_vars => Inv'
<1> SUFFICES ASSUME Inv, [Next]_vars PROVE Inv'
    OBVIOUS
<1>1. CASE UNCHANGED vars
  <2>1. Grows
    BY <1>1, SameGrows, Parts DEF vars
  <2>2. task \in [Tasks -> TaskRecords]
    BY DEF Inv, StateOK
  <2>q. QED
    BY <1>1, <2>1, <2>2, Framed, Parts DEF vars
<1>2. CASE Next
    BY <1>2, ProceedKeeps, StartKeeps, UnavailableKeeps, EditKeeps DEF Next
<1>q. QED
    BY <1>1, <1>2

LEMMA Invariance == Spec => []Inv
BY InvInit, InvNext, PTL DEF Spec

\* What the properties remember is typed.
LEMMA PastStep == Inv /\ PastOK /\ [Next]_vars => PastOK'
<1> SUFFICES ASSUME Inv, PastOK, [Next]_vars PROVE PastOK'
    OBVIOUS
<1>1. CASE UNCHANGED past
    BY <1>1 DEF past, PastOK
<1>2. ASSUME NEW t \in Tasks, Start(t) PROVE PastOK'
    BY <1>2 DEF PastOK, Start, Reload, WatchFires, RetryFires, Reconnect, Destroy, WalkBegins, OtherBegins
<1>3. ASSUME NEW l \in DOMAIN links, LinkErrors(l) PROVE PastOK'
  <2>1. l \in Ids /\ UNCHANGED overlapped
    BY <1>3, Parts DEF Ids, LinkErrors, StateOK
  <2>q. QED
    BY <1>3, <2>1 DEF LinkErrors, PastOK
<1>4. ASSUME NEW t \in Tasks, Proceed(t) PROVE UNCHANGED past
    BY <1>4 DEF Proceed, Prune, Pruned, PruneEnds, Visit, Disabled, Replaced, VisitEnds, ConnectOpens, ConnectFails,
       ConnectSucceeds, Settle, RetryEnds, RetryNext, Rejoin, Close, Closed, CloseEnds
<1>5. ASSUME NEW l \in DOMAIN links, LinkDrops(l) PROVE UNCHANGED past
    BY <1>5 DEF LinkDrops
<1>6. ASSUME NEW s \in Servers, NEW e \in Entries \cup {Missing, Off}, EditCatalog(s, e) PROVE UNCHANGED past
    BY <1>6 DEF EditCatalog
<1>7. UNCHANGED vars => UNCHANGED past
    BY DEF vars, past
<1>q. QED
    BY <1>1, <1>2, <1>3, <1>4, <1>5, <1>6, <1>7 DEF Next

\* The map files every object under its own name, whatever tasks, drops and
\* edits interleave.
THEOREM ConnectionsAreTyped == Spec => []TypeOK
<1>1. Init => PastOK
    BY DEF Init, PastOK
<1>2. Inv /\ PastOK => TypeOK
    BY DEF Inv, TypeOK
<1>q. QED
    BY <1>1, <1>2, PastStep, Invariance, PTL DEF Spec

-----------------------------------------------------------------------------
(* the retries                                                             *)

\* FailedIsRetried, of one server.
Remembered(s) ==
    LET l == servers[s] IN
    (/\ l # 0 /\ links[l].state = "failed" /\ links[l].entry # Off
     /\ Untouched(l) /\ phase # "down") =>
      timer \/ \E t \in Tasks : task[t].kind = "retry" /\ l \in task[t].todo

\* A server stays remembered by a step that fails nothing, frees nobody's
\* object, and takes it off no list.
LEMMA StillRemembered ==
    ASSUME NEW s \in Servers, Remembered(s), servers'[s] = servers[s],
           servers[s] # 0 =>
             /\ links'[servers[s]].state = "failed" => links[servers[s]].state = "failed"
             /\ links'[servers[s]].entry = links[servers[s]].entry,
           phase = "down" => phase' = "down", timer => timer',
           \A u \in Tasks :
             \/ task'[u] = task[u]
             \/ /\ \/ task[u].cur # servers[s]
                   \/ task[u].pc \in {"idle", "prune", "visit", "retry"}
                   \/ task'[u].cur = task[u].cur /\ task'[u].pc \notin {"idle", "prune", "visit", "retry"}
                /\ task[u].kind = "retry" /\ servers[s] \in task[u].todo =>
                     task'[u].kind = "retry" /\ servers[s] \in task'[u].todo
    PROVE  Remembered(s)'
<1> DEFINE l == servers[s]
<1>1. SUFFICES ASSUME l # 0, links'[l].state = "failed", links'[l].entry # Off,
                      \A u \in Tasks : task'[u].cur # l \/ task'[u].pc \in {"idle", "prune", "visit", "retry"},
                      phase' # "down"
               PROVE  timer' \/ \E t \in Tasks : task'[t].kind = "retry" /\ l \in task'[t].todo
    BY DEF Remembered, Untouched
<1>2. Untouched(l)
    BY <1>1 DEF Untouched
<1>3. timer \/ \E t \in Tasks : task[t].kind = "retry" /\ l \in task[t].todo
    BY <1>1, <1>2 DEF Remembered
<1>q. QED
    BY <1>3

\* The steps that start a task, or take one from the head of its loop, and
\* change no state and no entry.
LEMMA HeadRemembers ==
    ASSUME Inv, \A s \in Servers : Remembered(s), NEW t \in Tasks,
           task[t].pc \in {"idle", "prune", "visit"},
           \A u \in Tasks : u # t => task'[u] = task[u],
           \A s \in Servers : servers'[s] = servers[s],
           \A i \in 1..Len(links) : /\ links'[i].state = links[i].state
                                    /\ links'[i].entry = links[i].entry,
           phase = "down" => phase' = "down", timer' = timer
    PROVE  \A s \in Servers : Remembered(s)'
<1>1. task[t].kind # "retry"
    BY Parts DEF Sound
<1>2. \A s \in Servers : servers[s] # 0 => servers[s] \in 1..Len(links)
    BY Parts
<1>q. QED
    BY <1>1, <1>2, StillRemembered

LEMMA LoopsRemember ==
    ASSUME Inv, \A s \in Servers : Remembered(s), NEW t \in Tasks,
           \/ Reload(t) \/ WatchFires(t) \/ PruneEnds(t) \/ VisitEnds(t)
           \/ \E s \in Servers : Reconnect(t, s) \/ Prune(t, s)
    PROVE  \A s \in Servers : Remembered(s)'
<1>1. task[t].pc \in {"idle", "prune", "visit"}
    BY DEF Reload, WatchFires, PruneEnds, VisitEnds, Reconnect, Prune, Begin
<1>2. \A u \in Tasks : u # t => task'[u] = task[u]
  <2>1. \E r : task' = [task EXCEPT ![t] = r]
    BY ZenonT(40) DEF Reload, WatchFires, PruneEnds, VisitEnds, Reconnect, Prune, Begin
  <2>q. QED
    BY <2>1 DEF Inv, StateOK
<1>3. servers' = servers /\ timer' = timer /\ (phase = "down" => phase' = "down")
    BY DEF Reload, WatchFires, PruneEnds, VisitEnds, Reconnect, Prune
<1>4. links' = links \/ \E s \in Servers : links' = Disconnected(servers[s])
    BY DEF Reload, WatchFires, PruneEnds, VisitEnds, Reconnect, Prune
<1>5. \A i \in 1..Len(links) : links'[i].state = links[i].state /\ links'[i].entry = links[i].entry
    BY <1>4, DisconnectedTable, Parts DEF SameBut
<1>q. QED
    BY <1>1, <1>2, <1>3, <1>5, HeadRemembers

\* What a fresh object at one server does to the others.
LEMMA OthersRemember ==
    ASSUME Inv, \A s \in Servers : Remembered(s), NEW t \in Tasks, NEW j \in Servers,
           Len(links') = Len(links) + 1, servers' = [servers EXCEPT ![j] = Len(links')],
           \A i \in 1..Len(links) : /\ links'[i].state = links[i].state
                                    /\ links'[i].entry = links[i].entry,
           UNCHANGED <<timer, phase>>,
           \A u \in Tasks : u # t => task'[u] = task[u],
           \/ task[t].pc \in {"idle", "prune", "visit", "retry"}
           \/ task[t].cur = 0
           \/ links[task[t].cur].server = j,
           task[t].kind = "retry" =>
             /\ task'[t].kind = "retry"
             /\ \A i \in task[t].todo : i \in 1..Len(links) /\ links[i].server # j => i \in task'[t].todo
    PROVE  \A s \in Servers : s # j => Remembered(s)'
<1> SUFFICES ASSUME NEW s \in Servers, s # j PROVE Remembered(s)'
    OBVIOUS
<1>1. servers'[s] = servers[s]
    BY DEF Inv, StateOK
<1>2. servers[s] # 0 => servers[s] \in 1..Len(links) /\ links[servers[s]].server = s
    BY Parts DEF StateOK, Known
<1>3. servers[s] # 0 /\ task[t].cur = servers[s] => task[t].pc \in {"idle", "prune", "visit", "retry"}
    BY <1>2
<1>4. CASE servers[s] = 0
    BY <1>1, <1>4 DEF Remembered
<1>5. CASE servers[s] # 0
    BY <1>1, <1>2, <1>3, <1>5, StillRemembered
<1>q. QED
    BY <1>4, <1>5

LEMMA VisitRemembers ==
    ASSUME Inv, \A s \in Servers : Remembered(s), NEW t \in Tasks, NEW j \in Servers, Visit(t, j)
    PROVE  \A s \in Servers : Remembered(s)'
<1>1. task[t].pc = "visit" /\ UNCHANGED <<timer, phase>>
    BY DEF Visit
<1>2. \A u \in Tasks : u # t => task'[u] = task[u]
    BY DEF Visit, Inv, StateOK
<1>3. CASE Put(links, j, Off, "disabled")
  <2>1. SameBut(links, 0)
    BY Parts DEF SameBut
  <2>2. /\ Len(links') = Len(links) + 1 /\ servers' = [servers EXCEPT ![j] = Len(links')]
        /\ \A i \in 1..Len(links) : links'[i] = links[i]
        /\ links'[Len(links')].entry = Off
    BY <1>3, <2>1, FreshObject
  <2>3. \A s \in Servers : s # j => Remembered(s)'
    <3>1. task[t].kind # "retry"
      BY <1>1, Parts DEF Sound
    <3>q. QED
      BY <1>1, <1>2, <2>2, <3>1, OthersRemember
  <2>4. Remembered(j)'
    <3>1. servers'[j] = Len(links')
      BY <2>2 DEF Inv, StateOK
    <3>q. QED
      BY <2>2, <3>1 DEF Remembered
  <2>q. QED
    BY <2>3, <2>4
<1>4. CASE servers' = servers /\ (links' = links \/ links' = Disconnected(servers[j]))
  <2>1. \A i \in 1..Len(links) : links'[i].state = links[i].state /\ links'[i].entry = links[i].entry
    BY <1>4, DisconnectedTable, Parts DEF SameBut
  <2>q. QED
    BY <1>1, <1>2, <1>4, <2>1, HeadRemembers
<1>q. QED
    BY <1>3, <1>4 DEF Visit, Released

LEMMA RetriesRemember ==
    ASSUME Inv, \A s \in Servers : Remembered(s), NEW t \in Tasks, RetryFires(t) \/ RetryEnds(t)
    PROVE  \A s \in Servers : Remembered(s)'
<1>1. task \in [Tasks -> TaskRecords]
    BY DEF Inv, StateOK
<1>2. ASSUME RetryFires(t), NEW s \in Servers PROVE Remembered(s)'
  <2>1. task'[t] = [Idle EXCEPT !.kind = "retry", !.pc = "retry", !.todo = {servers[j] : j \in Known}]
    BY <1>1, <1>2 DEF RetryFires, Begin
  <2>2. task'[t].kind = "retry" /\ task'[t].todo = {servers[j] : j \in Known}
    BY <2>1 DEF Idle
  <2>3. servers' = servers
    BY <1>2 DEF RetryFires
  <2>q. QED
    BY <2>2, <2>3 DEF Remembered, Known
<1>3. ASSUME RetryEnds(t), NEW s \in Servers PROVE Remembered(s)'
  <2>1. /\ task[t].pc = "retry" /\ task[t].todo = {}
        /\ UNCHANGED <<servers, links, timer, phase>>
        /\ \A u \in Tasks : u # t => task'[u] = task[u]
    BY <1>1, <1>3 DEF RetryEnds
  <2>q. QED
    BY <2>1, StillRemembered
<1>q. QED
    BY <1>2, <1>3

\* An object that is being connected is nobody's to retry.
LEMMA AttemptRemembers ==
    ASSUME Inv, \A s \in Servers : Remembered(s), NEW t \in Tasks, NEW l, NEW objs, SameBut(objs, l),
           \A i \in 1..Len(links) : objs[i].state = links[i].state /\ objs[i].entry = links[i].entry,
           NEW j \in Servers, NEW e \in Entries \cup {Off}, Put(objs, j, e, "failed"),
           UNCHANGED <<timer, phase>>,
           \A u \in Tasks : u # t => task'[u] = task[u],
           task'[t].pc = "connecting", task'[t].cur = Len(links'),
           \/ task[t].pc \in {"idle", "prune", "visit", "retry"}
           \/ task[t].cur = 0
           \/ links[task[t].cur].server = j,
           task[t].kind = "retry" =>
             /\ task'[t].kind = "retry"
             /\ \A i \in task[t].todo : i \in 1..Len(links) /\ links[i].server # j => i \in task'[t].todo
    PROVE  \A s \in Servers : Remembered(s)'
<1>1. /\ Len(links') = Len(links) + 1 /\ servers' = [servers EXCEPT ![j] = Len(links')]
      /\ \A i \in 1..Len(links) : links'[i] = objs[i]
    BY FreshObject
<1>2. \A i \in 1..Len(links) : links'[i].state = links[i].state /\ links'[i].entry = links[i].entry
    BY <1>1
<1>3. \A s \in Servers : s # j => Remembered(s)'
    BY <1>1, <1>2, OthersRemember
<1>4. Remembered(j)'
  <2>1. servers'[j] = Len(links')
    BY <1>1 DEF Inv, StateOK
  <2>q. QED
    BY <2>1 DEF Remembered, Untouched
<1>q. QED
    BY <1>3, <1>4

LEMMA ReplacesRemember ==
    ASSUME Inv, \A s \in Servers : Remembered(s), NEW t \in Tasks, Replaced(t)
    PROVE  \A s \in Servers : Remembered(s)'
<1> DEFINE j == task[t].srv
           e == task[t].cat[j]
<1>1. /\ j \in Servers /\ e \in Entries /\ task[t].kind # "retry"
      /\ task[t].cur # 0 => links[task[t].cur].server = j
    BY Parts DEF Replaced, Sound
<1>2. SameBut(links, 0) /\ Put(links, j, e, "failed") /\ UNCHANGED <<timer, phase>>
    BY Parts DEF Replaced, Connect, SameBut
<1>3. task \in [Tasks -> TaskRecords]
    BY DEF Inv, StateOK
<1>4. /\ \A u \in Tasks : u # t => task'[u] = task[u]
      /\ task'[t].pc = "connecting" /\ task'[t].cur = Len(links')
  <2>1. task' = [task EXCEPT ![t].pc = "connecting", ![t].io = FALSE, ![t].cur = Len(links')]
    BY DEF Replaced
  <2>q. QED
    BY <1>3, <2>1 DEF TaskRecords
<1> HIDE DEF j, e
<1>q. QED
    BY <1>1, <1>2, <1>4, AttemptRemembers

LEMMA RejoinRemembers ==
    ASSUME Inv, \A s \in Servers : Remembered(s), NEW t \in Tasks, Rejoin(t)
    PROVE  \A s \in Servers : Remembered(s)'
<1> DEFINE l == task[t].cur
           j == task[t].srv
           e == links[l].entry
<1>1. /\ j \in Servers /\ task[t].kind = "reconnect"
      /\ l \in Ids /\ l \in 1..Len(links) /\ l <= Len(links) /\ links[l].server = j
    BY Parts DEF Rejoin, Sound
<1>2. e \in Entries \cup {Off}
  <2>1. links[l] \in Links
    BY <1>1, Parts
  <2>q. QED
    BY <2>1 DEF Links
<1>3. /\ SameBut(Bare(l), l) /\ Put(Bare(l), j, e, "failed") /\ UNCHANGED <<timer, phase>>
      /\ Bare(l)[l].state = links[l].state /\ Bare(l)[l].entry = links[l].entry
    BY <1>1, Parts, BareTable DEF Rejoin, Connect
<1>4. \A i \in 1..Len(links) : Bare(l)[i].state = links[i].state /\ Bare(l)[i].entry = links[i].entry
    BY <1>3 DEF SameBut
<1>5. task \in [Tasks -> TaskRecords]
    BY DEF Inv, StateOK
<1>6. /\ \A u \in Tasks : u # t => task'[u] = task[u]
      /\ task'[t].pc = "connecting" /\ task'[t].cur = Len(links')
  <2>1. task' = [task EXCEPT ![t].pc = "connecting", ![t].io = FALSE, ![t].cur = Len(links')]
    BY DEF Rejoin
  <2>q. QED
    BY <1>5, <2>1 DEF TaskRecords
<1> DEFINE bare == Bare(l)
<1>7. SameBut(bare, l) /\ Put(bare, j, e, "failed")
      /\ \A i \in 1..Len(links) : bare[i].state = links[i].state /\ bare[i].entry = links[i].entry
    BY <1>3, <1>4
<1> HIDE DEF e, bare, j
<1>q. QED
    BY <1>1, <1>2, <1>3, <1>6, <1>7, AttemptRemembers

LEMMA RetryNextRemembers ==
    ASSUME Inv, \A s \in Servers : Remembered(s), NEW t \in Tasks, NEW l \in DOMAIN links, RetryNext(t, l)
    PROVE  \A s \in Servers : Remembered(s)'
<1>1. /\ task[t].kind = "retry" /\ task[t].pc = "retry" /\ task \in [Tasks -> TaskRecords]
      /\ links[l] \in Links /\ l \in 1..Len(links)
    BY Parts DEF RetryNext, Sound, StateOK
<1>2. links[l].server \in Servers /\ links[l].entry \in Entries \cup {Off}
    BY <1>1 DEF Links
<1>3. UNCHANGED <<timer, phase>>
    BY DEF RetryNext
<1>4. CASE /\ Connect(links, links[l].server, links[l].entry)
           /\ task' = [task EXCEPT ![t].pc = "connecting", ![t].io = FALSE, ![t].cur = Len(links'),
                                   ![t].todo = @ \ {l}, ![t].did = TRUE]
  <2>1. /\ \A u \in Tasks : u # t => task'[u] = task[u]
        /\ task'[t].pc = "connecting" /\ task'[t].cur = Len(links')
        /\ task'[t].kind = "retry" /\ task'[t].todo = task[t].todo \ {l}
    BY <1>1, <1>4 DEF TaskRecords
  <2>2. SameBut(links, 0) /\ Put(links, links[l].server, links[l].entry, "failed")
    BY <1>4, Parts DEF Connect, SameBut
  <2>3. \A i \in task[t].todo : i \in 1..Len(links) /\ links[i].server # links[l].server => i \in task'[t].todo
    BY <2>1
  <2>q. QED
    BY <1>1, <1>2, <1>3, <2>1, <2>2, <2>3, AttemptRemembers
<1>5. CASE /\ ~(links[l].state = "failed" /\ links[l].entry # Off)
           /\ task' = [task EXCEPT ![t].todo = @ \ {l}] /\ UNCHANGED <<servers, links>>
  <2>1. /\ \A u \in Tasks : u # t => task'[u] = task[u]
        /\ task'[t].kind = "retry" /\ task'[t].todo = task[t].todo \ {l}
    BY <1>1, <1>5 DEF TaskRecords
  <2>2. ASSUME NEW s \in Servers, servers[s] = l PROVE Remembered(s)'
    BY <1>5, <2>2 DEF Remembered
  <2>3. ASSUME NEW s \in Servers, servers[s] # l PROVE Remembered(s)'
    BY <1>1, <1>3, <1>5, <2>1, <2>3, StillRemembered
  <2>q. QED
    BY <2>2, <2>3
<1>q. QED
    BY <1>4, <1>5 DEF RetryNext

LEMMA ReleasesRemember ==
    ASSUME Inv, \A s \in Servers : Remembered(s), NEW t \in Tasks, Pruned(t) \/ Disabled(t)
    PROVE  \A s \in Servers : Remembered(s)'
<1>1. /\ task[t].kind # "retry" /\ task[t].srv \in Servers
      /\ task[t].cur \in Ids /\ task[t].cur \in 0..Len(links)
      /\ task[t].cur # 0 => links[task[t].cur].server = task[t].srv
    BY Parts DEF Pruned, Disabled, Sound
<1>2. \A u \in Tasks : u # t => task'[u] = task[u]
    BY DEF Pruned, Disabled, Loop, Inv, StateOK
<1>3. UNCHANGED <<timer, phase>>
    BY DEF Pruned, Disabled
<1>4. \A s \in Servers : servers[s] # 0 => servers[s] \in 1..Len(links) /\ links[servers[s]].server = s
    BY Parts DEF StateOK, Known
<1>5. ASSUME Pruned(t), NEW s \in Servers PROVE Remembered(s)'
  <2>1. servers' = [servers EXCEPT ![task[t].srv] = 0] /\ links' = Bare(task[t].cur)
    BY <1>5 DEF Pruned
  <2>2. CASE servers'[s] = 0
    BY <2>2 DEF Remembered
  <2>3. CASE servers'[s] # 0
    <3>1. s # task[t].srv /\ servers'[s] = servers[s]
      BY <2>1, <2>3 DEF Inv, StateOK
    <3>2. task[t].cur # servers[s]
      BY <1>1, <1>4, <2>3, <3>1
    <3>3. \A i \in 1..Len(links) : links'[i].state = links[i].state /\ links'[i].entry = links[i].entry
      BY <1>1, <2>1, BareTable, Parts DEF SameBut
    <3>q. QED
      BY <1>1, <1>2, <1>3, <1>4, <3>1, <3>2, <3>3, StillRemembered
  <2>q. QED
    BY <2>2, <2>3
<1>6. ASSUME Disabled(t), NEW s \in Servers PROVE Remembered(s)'
  <2>1. servers' = servers /\ task[t].cur \in 1..Len(links)
    BY <1>1, <1>6, Parts DEF Disabled, Sound
  <2>2. links[task[t].cur] \in Links
    BY <2>1, Parts
  <2>3. /\ links'[task[t].cur].entry = Off
        /\ \A i \in 1..Len(links) : i # task[t].cur => links'[i] = links[i]
    BY <1>6, <2>1, <2>2, Parts DEF Disabled, Links
  <2>4. CASE servers[s] = task[t].cur
    BY <2>1, <2>3, <2>4 DEF Remembered
  <2>5. CASE servers[s] # task[t].cur
    BY <1>1, <1>2, <1>3, <1>4, <2>1, <2>3, <2>5, StillRemembered
  <2>q. QED
    BY <2>4, <2>5
<1>q. QED
    BY <1>5, <1>6

LEMMA ConnectsRemember ==
    ASSUME Inv, \A s \in Servers : Remembered(s), NEW t \in Tasks,
           ConnectOpens(t) \/ ConnectFails(t) \/ ConnectSucceeds(t)
    PROVE  \A s \in Servers : Remembered(s)'
<1> DEFINE l == task[t].cur
<1>1. /\ task[t].pc \in {"connecting", "listing"} /\ task[t] \in TaskRecords
      /\ task \in [Tasks -> TaskRecords]
    BY Parts DEF ConnectOpens, ConnectFails, ConnectSucceeds, StateOK
<1>2. l \in 1..Len(links) /\ links[l] \in Links
  <2>1. l # 0
    BY <1>1, Parts DEF Sound
  <2>q. QED
    BY <2>1, Parts
<1>3. \A s \in Servers : servers[s] # 0 => servers[s] \in 1..Len(links)
    BY Parts
<1>4. ASSUME ConnectOpens(t), NEW s \in Servers PROVE Remembered(s)'
  <2>1. /\ \A u \in Tasks : u # t => task'[u] = task[u]
        /\ task'[t].pc = "listing" /\ task'[t].cur = l /\ task'[t].kind = task[t].kind
        /\ task'[t].todo = task[t].todo
    BY <1>1, <1>4 DEF ConnectOpens, TaskRecords
  <2>2. /\ UNCHANGED <<servers, timer, phase>>
        /\ links' = [links EXCEPT ![l].held = TRUE, ![l].wire = TRUE]
    BY <1>4 DEF ConnectOpens
  <2>3. \A i \in 1..Len(links) : links'[i].state = links[i].state /\ links'[i].entry = links[i].entry
    BY <1>2, <2>2, Parts DEF Links
  <2> HIDE DEF l
  <2>q. QED
    BY <1>3, <2>1, <2>2, <2>3, StillRemembered DEF l
<1>5. ASSUME ConnectFails(t), NEW s \in Servers PROVE Remembered(s)'
  <2>1. timer' = TRUE
    BY <1>5 DEF ConnectFails, ScheduleRetry
  <2>q. QED
    BY <2>1 DEF Remembered
<1>6. ASSUME ConnectSucceeds(t), NEW s \in Servers PROVE Remembered(s)'
  <2>1. /\ UNCHANGED <<servers, timer, phase>>
        /\ links' = [links EXCEPT ![l].has = TRUE, ![l].state = "connected"]
        /\ task' = [task EXCEPT ![t] = Resumed(t)]
    BY <1>6 DEF ConnectSucceeds, Settle
  <2>2. /\ \A u \in Tasks : u # t => task'[u] = task[u]
        /\ task[t].kind = "retry" => task'[t].kind = "retry" /\ task'[t].todo = task[t].todo
    <3>1. task'[t] = Resumed(t) /\ \A u \in Tasks : u # t => task'[u] = task[u]
      BY <1>1, <2>1
    <3>2. CASE task[t].kind = "retry"
      <4>1. task'[t] = [task[t] EXCEPT !.pc = "retry", !.srv = Missing, !.cur = 0, !.io = FALSE]
        BY <3>1, <3>2 DEF Resumed
      <4>q. QED
        BY <1>1, <3>1, <3>2, <4>1 DEF TaskRecords
    <3>q. QED
      BY <3>1, <3>2
  <2>3. /\ links'[l].state = "connected"
        /\ \A i \in 1..Len(links) : i # l => links'[i] = links[i]
    BY <1>2, <2>1, Parts DEF Links
  <2>4. CASE servers[s] = l
    BY <2>1, <2>3, <2>4 DEF Remembered
  <2>5. CASE servers[s] # l
    BY <1>3, <2>1, <2>2, <2>3, <2>5, StillRemembered
  <2>q. QED
    BY <2>4, <2>5
<1>q. QED
    BY <1>4, <1>5, <1>6

LEMMA EventsRemember ==
    ASSUME Inv, \A s \in Servers : Remembered(s),
           \/ \E l \in DOMAIN links : LinkDrops(l) \/ LinkErrors(l)
           \/ \E s \in Servers, e \in Entries \cup {Missing, Off} : EditCatalog(s, e)
           \/ UNCHANGED vars
    PROVE  \A s \in Servers : Remembered(s)'
<1>1. CASE timer' = TRUE
    BY <1>1 DEF Remembered
<1>2. ASSUME UNCHANGED <<servers, task, timer, phase>>,
             \A i \in 1..Len(links) : links'[i].state = links[i].state /\ links'[i].entry = links[i].entry,
             NEW s \in Servers
      PROVE  Remembered(s)'
  <2>1. servers[s] # 0 => servers[s] \in 1..Len(links)
    BY Parts
  <2>q. QED
    BY <1>2, <2>1, StillRemembered
<1>3. ASSUME NEW l \in DOMAIN links, LinkDrops(l) \/ LinkErrors(l)
      PROVE  \/ timer' = TRUE
             \/ /\ UNCHANGED <<servers, task, timer, phase>>
                /\ \A i \in 1..Len(links) : links'[i].state = links[i].state /\ links'[i].entry = links[i].entry
  <2>1. links[l] \in Links /\ l \in 1..Len(links) /\ links \in Seq(Links)
    BY Parts
  <2>2. CASE Current(l)
    BY <1>3, <2>2 DEF LinkDrops, LinkErrors, Unavailable, ScheduleRetry
  <2>3. CASE ~Current(l)
    <3>1. /\ \/ links' = [links EXCEPT ![l].wire = FALSE, ![l].held = FALSE]
             \/ links' = [links EXCEPT ![l].held = FALSE]
          /\ UNCHANGED <<servers, task, timer, phase>>
      BY <1>3, <2>3 DEF LinkDrops, LinkErrors, Unavailable
    <3>2. \A i \in 1..Len(links) : links'[i].state = links[i].state /\ links'[i].entry = links[i].entry
      <4>1. CASE links' = [links EXCEPT ![l].wire = FALSE, ![l].held = FALSE]
        BY <2>1, <4>1 DEF Links
      <4>2. CASE links' = [links EXCEPT ![l].held = FALSE]
        BY <2>1, <4>2 DEF Links
      <4>q. QED
        BY <3>1, <4>1, <4>2
    <3>q. QED
      BY <3>1, <3>2
  <2>q. QED
    BY <2>2, <2>3
<1>4. ASSUME \/ \E s \in Servers, e \in Entries \cup {Missing, Off} : EditCatalog(s, e)
             \/ UNCHANGED vars
      PROVE  UNCHANGED <<servers, links, task, timer, phase>>
    BY <1>4 DEF EditCatalog, vars
<1>q. QED
    BY <1>1, <1>2, <1>3, <1>4

LEMMA ShutdownRemembers ==
    ASSUME Inv, NEW t \in Tasks,
           \/ Destroy(t) \/ Closed(t) \/ CloseEnds(t) \/ \E s \in Servers : Close(t, s)
    PROVE  \A s \in Servers : Remembered(s)'
<1>1. phase' = "down"
    BY Parts DEF Destroy, Closed, CloseEnds, Close, Sound
<1>q. QED
    BY <1>1 DEF Remembered

\* No failed server is forgotten, whatever tasks, drops, errors and edits
\* interleave.
THEOREM FailuresAreRetried == Spec => []FailedIsRetried
<1>1. Init => \A s \in Servers : Remembered(s)
    BY DEF Init, Remembered
<1>2. Inv /\ (\A s \in Servers : Remembered(s)) /\ [Next]_vars => (\A s \in Servers : Remembered(s))'
  <2> SUFFICES ASSUME Inv, \A s \in Servers : Remembered(s), [Next]_vars
               PROVE  \A s \in Servers : Remembered(s)'
    OBVIOUS
  <2>1. ASSUME NEW t \in Tasks, Proceed(t) PROVE \A s \in Servers : Remembered(s)'
    BY <2>1, ReleasesRemember, LoopsRemember, ReplacesRemember, ConnectsRemember, RetriesRemember,
       RejoinRemembers, ShutdownRemembers, VisitRemembers, RetryNextRemembers DEF Proceed
  <2>2. ASSUME NEW t \in Tasks, Start(t) PROVE \A s \in Servers : Remembered(s)'
    BY <2>2, LoopsRemember, RetriesRemember, ShutdownRemembers DEF Start
  <2>q. QED
    BY <2>1, <2>2, EventsRemember DEF Next
<1>3. (\A s \in Servers : Remembered(s)) => FailedIsRetried
    BY DEF Remembered, FailedIsRetried, Known
<1>q. QED
    BY <1>1, <1>2, <1>3, Invariance, PTL DEF Spec

-----------------------------------------------------------------------------
(* the bridge                                                              *)

\* A task that ends with a notice to the bridge.
Notifies(t) ==
    \/ task[t].kind \in {"initialize", "reload", "reconnect"}
    \/ task[t].kind = "retry" /\ task[t].did

\* Whatever the bridge has not heard of, somebody will tell it.
Announced ==
    phase # "down" /\ offered # Refreshed(servers, links) => \E t \in Tasks : Notifies(t)

\* The snapshot depends on the map, and on the states and entries of objects.
LEMMA SameSnapshot ==
    ASSUME Inv, servers' = servers,
           \A i \in 1..Len(links) : links'[i].state = links[i].state /\ links'[i].entry = links[i].entry
    PROVE  Refreshed(servers', links') = Refreshed(servers, links)
<1>1. ASSUME NEW s \in Servers, servers[s] # 0
      PROVE  /\ links'[servers[s]].state = links[servers[s]].state
             /\ links'[servers[s]].entry = links[servers[s]].entry
  <2>1. servers[s] \in 1..Len(links)
    BY <1>1, Parts
  <2>q. QED
    BY <2>1
<1>q. QED
    BY <1>1 DEF Refreshed

\* A task goes on, or begins, that will tell.
LEMMA GoesOnToNotify ==
    ASSUME Inv, NEW t \in Tasks,
           \/ Pruned(t) \/ PruneEnds(t) \/ Disabled(t) \/ Replaced(t) \/ Rejoin(t) \/ ConnectOpens(t)
           \/ \E s \in Servers : Prune(t, s) \/ Visit(t, s)
    PROVE  Notifies(t)'
<1>1. task[t] \in TaskRecords /\ Sound(t) /\ task \in [Tasks -> TaskRecords]
    BY Parts DEF StateOK
<1>2. Notifies(t)
    BY <1>1 DEF Pruned, PruneEnds, Disabled, Replaced, Rejoin, ConnectOpens, Prune, Visit, Sound, Notifies
<1>3. task'[t].kind = task[t].kind /\ task'[t].did = task[t].did
  <2>1. CASE Pruned(t) \/ Disabled(t)
    <3>1. \E label : Loop(t, label)
      BY <2>1 DEF Pruned, Disabled
    <3>q. QED
      BY <1>1, <3>1 DEF Loop, TaskRecords
  <2>2. CASE PruneEnds(t)
    BY <1>1, <2>2 DEF PruneEnds, TaskRecords
  <2>3. CASE Replaced(t) \/ Rejoin(t)
    <3>1. task' = [task EXCEPT ![t].pc = "connecting", ![t].io = FALSE, ![t].cur = Len(links')]
      BY <2>3 DEF Replaced, Rejoin
    <3>q. QED
      BY <1>1, <3>1 DEF TaskRecords
  <2>4. CASE ConnectOpens(t)
    BY <1>1, <2>4 DEF ConnectOpens, TaskRecords
  <2>5. ASSUME NEW s \in Servers, Prune(t, s)
        PROVE  task'[t].kind = task[t].kind /\ task'[t].did = task[t].did
    BY <1>1, <2>5 DEF Prune, TaskRecords
  <2>6. ASSUME NEW s \in Servers, Visit(t, s)
        PROVE  task'[t].kind = task[t].kind /\ task'[t].did = task[t].did
    <3> DEFINE l == servers[s]
               io == Closes(l)
               pc == IF task[t].cat[s] = Off THEN "disabling" ELSE "replacing"
    <3>1. \/ task' = [task EXCEPT ![t].todo = @ \ {s}]
          \/ task' = [task EXCEPT ![t].todo = @ \ {s}, ![t].srv = s, ![t].cur = l,
                                  ![t].io = io, ![t].pc = pc]
      BY <2>6 DEF Visit
    <3> HIDE DEF l, io, pc
    <3>2. CASE task' = [task EXCEPT ![t].todo = @ \ {s}]
      BY <1>1, <3>2 DEF TaskRecords
    <3>3. CASE task' = [task EXCEPT ![t].todo = @ \ {s}, ![t].srv = s, ![t].cur = l,
                                    ![t].io = io, ![t].pc = pc]
      BY <1>1, <3>3 DEF TaskRecords
    <3>q. QED
      BY <3>1, <3>2, <3>3
  <2>q. QED
    BY <2>1, <2>2, <2>3, <2>4, <2>5, <2>6
<1>q. QED
    BY <1>2, <1>3 DEF Notifies

LEMMA BeginsToNotify ==
    ASSUME Inv, NEW t \in Tasks,
           Reload(t) \/ WatchFires(t) \/ \E s \in Servers : Reconnect(t, s)
    PROVE  Notifies(t)'
<1>1. task \in [Tasks -> TaskRecords]
    BY DEF Inv, StateOK
<1>2. CASE Reload(t) \/ WatchFires(t)
  <2>1. task'[t] = Reloading
    BY <1>1, <1>2 DEF Reload, WatchFires, Begin
  <2>q. QED
    BY <2>1 DEF Reloading, Idle, Notifies
<1>3. ASSUME NEW s \in Servers, Reconnect(t, s) PROVE Notifies(t)'
  <2>1. task'[t] = [Idle EXCEPT !.kind = "reconnect", !.pc = "rejoining",
                               !.srv = s, !.cur = servers[s], !.io = Closes(servers[s])]
    BY <1>1, <1>3 DEF Reconnect, Begin
  <2>q. QED
    BY <2>1 DEF Idle, Notifies
<1>q. QED
    BY <1>2, <1>3

\* A connect ends: its task notifies now, or goes on to.
LEMMA ConnectsNotify ==
    ASSUME Inv, NEW t \in Tasks, ConnectFails(t) \/ ConnectSucceeds(t)
    PROVE  offered' = Refreshed(servers', links') \/ Notifies(t)'
<1>1. /\ task[t] \in TaskRecords /\ Sound(t) /\ task \in [Tasks -> TaskRecords]
      /\ task[t].pc \in {"connecting", "listing"} /\ Settle(t)
    BY Parts DEF ConnectFails, ConnectSucceeds, StateOK
<1>2. CASE task[t].kind = "reconnect"
    BY <1>1, <1>2 DEF Settle, Notify
<1>3. CASE task[t].kind # "reconnect"
  <2>1. Notifies(t)
    BY <1>1, <1>3 DEF Sound, Notifies
  <2>2. task'[t] = Resumed(t)
    BY <1>1 DEF Settle
  <2>3. Resumed(t).kind = task[t].kind /\ Resumed(t).did = task[t].did
    BY <1>1, <1>3 DEF Resumed, TaskRecords
  <2>q. QED
    BY <2>1, <2>2, <2>3 DEF Notifies
<1>q. QED
    BY <1>2, <1>3

\* Nothing changes that the bridge has to hear of.
LEMMA NothingToTell ==
    ASSUME Inv, Announced, offered' = offered, phase = "down" => phase' = "down", servers' = servers,
           \A i \in 1..Len(links) : links'[i].state = links[i].state /\ links'[i].entry = links[i].entry,
           \A u \in Tasks : Notifies(u) => Notifies(u)'
    PROVE  Announced'
<1>1. Refreshed(servers', links') = Refreshed(servers, links)
    BY SameSnapshot
<1>2. phase' # "down" /\ offered' # Refreshed(servers', links') => \E u \in Tasks : Notifies(u)'
    BY <1>1 DEF Announced
<1>q. QED
    BY <1>2 DEF Announced

LEMMA RetriesAnnounce ==
    ASSUME Inv, Announced, NEW t \in Tasks,
           RetryFires(t) \/ RetryEnds(t) \/ \E l \in DOMAIN links : RetryNext(t, l)
    PROVE  Announced'
<1>1. task[t] \in TaskRecords /\ Sound(t) /\ task \in [Tasks -> TaskRecords]
    BY Parts DEF StateOK
<1>2. phase' = phase
    BY DEF RetryFires, RetryEnds, RetryNext
<1>3. CASE RetryFires(t)
  <2>1. \A u \in Tasks : u # t => task'[u] = task[u]
    BY <1>1, <1>3 DEF RetryFires, Begin
  <2>2. ~Notifies(t)
    BY <1>1, <1>3 DEF RetryFires, Begin, Sound, Notifies
  <2>3. \A u \in Tasks : Notifies(u) => Notifies(u)'
    BY <2>1, <2>2 DEF Notifies
  <2>q. QED
    BY <1>2, <1>3, <2>3, NothingToTell DEF RetryFires
<1>4. CASE RetryEnds(t)
  <2>1. CASE task[t].did
    <3>1. offered' = Refreshed(servers', links')
      BY <1>4, <2>1 DEF RetryEnds, Notify
    <3>q. QED
      BY <3>1 DEF Announced
  <2>2. CASE ~task[t].did
    <3>1. \A u \in Tasks : u # t => task'[u] = task[u]
      BY <1>1, <1>4 DEF RetryEnds
    <3>2. ~Notifies(t)
      BY <1>1, <1>4, <2>2 DEF RetryEnds, Sound, Notifies
    <3>3. \A u \in Tasks : Notifies(u) => Notifies(u)'
      BY <3>1, <3>2 DEF Notifies
    <3>q. QED
      BY <1>2, <1>4, <2>2, <3>3, NothingToTell DEF RetryEnds
  <2>q. QED
    BY <2>1, <2>2
<1>5. ASSUME NEW l \in DOMAIN links, RetryNext(t, l) PROVE Announced'
  <2>1. CASE task' = [task EXCEPT ![t].pc = "connecting", ![t].io = FALSE, ![t].cur = Len(links'),
                                  ![t].todo = @ \ {l}, ![t].did = TRUE]
    <3>1. task[t].kind = "retry"
      BY <1>1, <1>5 DEF RetryNext, Sound
    <3>2. task'[t].kind = "retry" /\ task'[t].did
      BY <1>1, <2>1, <3>1 DEF TaskRecords
    <3>3. Notifies(t)'
      BY <3>2 DEF Notifies
    <3>q. QED
      BY <3>3 DEF Announced
  <2>2. CASE task' = [task EXCEPT ![t].todo = @ \ {l}] /\ UNCHANGED <<servers, links>>
    <3>1. /\ \A u \in Tasks : u # t => task'[u] = task[u]
          /\ task'[t].kind = task[t].kind /\ task'[t].did = task[t].did
      BY <1>1, <2>2 DEF TaskRecords
    <3>2. \A u \in Tasks : Notifies(u) => Notifies(u)'
      BY <3>1 DEF Notifies
    <3>q. QED
      BY <1>2, <1>5, <2>2, <3>2, NothingToTell DEF RetryNext
  <2>q. QED
    BY <1>5, <2>1, <2>2 DEF RetryNext
<1>q. QED
    BY <1>3, <1>4, <1>5

LEMMA EventsAnnounce ==
    ASSUME Inv, Announced,
           \/ \E l \in DOMAIN links : LinkDrops(l) \/ LinkErrors(l)
           \/ \E s \in Servers, e \in Entries \cup {Missing, Off} : EditCatalog(s, e)
           \/ UNCHANGED vars
    PROVE  Announced'
<1>1. ASSUME NEW l \in DOMAIN links, LinkDrops(l) \/ LinkErrors(l) PROVE Announced'
  <2>1. links[l] \in Links /\ l \in 1..Len(links) /\ links \in Seq(Links)
    BY Parts
  <2>2. CASE Current(l)
    <3>1. offered' = Refreshed(servers', links')
      BY <1>1, <2>2 DEF LinkDrops, LinkErrors, Unavailable, Notify
    <3>q. QED
      BY <3>1 DEF Announced
  <2>3. CASE ~Current(l)
    <3>1. /\ \/ links' = [links EXCEPT ![l].wire = FALSE, ![l].held = FALSE]
             \/ links' = [links EXCEPT ![l].held = FALSE]
          /\ UNCHANGED <<servers, task, offered, phase>>
      BY <1>1, <2>3 DEF LinkDrops, LinkErrors, Unavailable
    <3>2. \A i \in 1..Len(links) : links'[i].state = links[i].state /\ links'[i].entry = links[i].entry
      <4>1. CASE links' = [links EXCEPT ![l].wire = FALSE, ![l].held = FALSE]
        BY <2>1, <4>1 DEF Links
      <4>2. CASE links' = [links EXCEPT ![l].held = FALSE]
        BY <2>1, <4>2 DEF Links
      <4>q. QED
        BY <3>1, <4>1, <4>2
    <3>q. QED
      BY <3>1, <3>2, NothingToTell DEF Notifies
  <2>q. QED
    BY <2>2, <2>3
<1>2. ASSUME \/ \E s \in Servers, e \in Entries \cup {Missing, Off} : EditCatalog(s, e)
             \/ UNCHANGED vars
      PROVE  Announced'
  <2>1. UNCHANGED <<servers, links, task, offered, phase>>
    BY <1>2 DEF EditCatalog, vars
  <2>q. QED
    BY <2>1, NothingToTell DEF Notifies
<1>q. QED
    BY <1>1, <1>2

LEMMA AnnouncedStep ==
    ASSUME Inv, Announced, [Next]_vars
    PROVE  Announced'
<1>1. ASSUME NEW t \in Tasks, Notifies(t)' PROVE Announced'
    BY <1>1 DEF Announced
<1>2. CASE offered' = Refreshed(servers', links')
    BY <1>2 DEF Announced
<1>3. CASE phase' = "down"
    BY <1>3 DEF Announced
<1>4. ASSUME NEW t \in Tasks,
             \/ Destroy(t) \/ Closed(t) \/ CloseEnds(t) \/ \E s \in Servers : Close(t, s)
      PROVE  phase' = "down"
    BY <1>4, Parts DEF Destroy, Closed, CloseEnds, Close, Sound
<1>5. ASSUME NEW t \in Tasks, Proceed(t) PROVE Announced'
  <2>1. CASE VisitEnds(t)
    BY <1>2, <2>1 DEF VisitEnds, Notify
  <2>q. QED
    BY <1>1, <1>2, <1>3, <1>4, <1>5, <2>1, GoesOnToNotify, ConnectsNotify, RetriesAnnounce DEF Proceed
<1>6. ASSUME NEW t \in Tasks, Start(t) PROVE Announced'
    BY <1>1, <1>3, <1>4, <1>6, BeginsToNotify, RetriesAnnounce DEF Start
<1>q. QED
    BY <1>5, <1>6, EventsAnnounce DEF Next

\* Once the tasks are through, planning is offered the tools of the connected
\* servers under their entries.
THEOREM BridgeCatchesUp == Spec => []BridgeIsCurrent
<1>1. Init => Announced
  <2>1. ASSUME Init PROVE offered = Refreshed(servers, links)
    BY <2>1 DEF Init, Refreshed
  <2>q. QED
    BY <2>1 DEF Announced
<1>2. Inv /\ Announced /\ [Next]_vars => Announced'
    BY AnnouncedStep
<1>3. Inv /\ Announced => BridgeIsCurrent
  <2>1. ASSUME Inv, Quiet, NEW t \in Tasks PROVE ~Notifies(t)
    BY <2>1, Parts DEF Quiet, Sound, Notifies
  <2>q. QED
    BY <2>1 DEF Announced, BridgeIsCurrent
<1>q. QED
    BY <1>1, <1>2, <1>3, Invariance, PTL DEF Spec

-----------------------------------------------------------------------------
(* what one step writes                                                    *)

\* The tasks that do not take the step.
Others(t) == \A u \in Tasks : u # t => task'[u] = task[u]

LEMMA OthersKept ==
    ASSUME Inv, NEW t \in Tasks, Proceed(t) \/ Start(t)
    PROVE  Others(t)
<1>1. task \in [Tasks -> TaskRecords]
    BY Parts DEF StateOK
<1>2. \E r : task' = [task EXCEPT ![t] = r]
  <2>1. CASE Start(t)
    BY <1>1, <2>1 DEF Start, Reload, WatchFires, RetryFires, Destroy, Reconnect, Begin
  <2>2. ASSUME NEW label, Loop(t, label) PROVE \E r : task' = [task EXCEPT ![t] = r]
    BY <1>1, <2>2 DEF Loop
  <2>3. CASE Pruned(t) \/ PruneEnds(t) \/ Disabled(t) \/ Replaced(t) \/ VisitEnds(t) \/ RetryEnds(t)
             \/ Rejoin(t) \/ Closed(t) \/ CloseEnds(t)
    BY <1>1, <2>2, <2>3 DEF Pruned, PruneEnds, Disabled, Replaced, VisitEnds, RetryEnds, Rejoin, Closed, CloseEnds
  <2>4. CASE ConnectOpens(t) \/ ConnectFails(t) \/ ConnectSucceeds(t)
    BY <1>1, <2>4 DEF ConnectOpens, ConnectFails, ConnectSucceeds, Settle
  <2>5. ASSUME NEW s \in Servers, Prune(t, s) \/ Close(t, s) PROVE \E r : task' = [task EXCEPT ![t] = r]
    BY <1>1, <2>5 DEF Prune, Close
  <2>6. ASSUME NEW s \in Servers, Visit(t, s) PROVE \E r : task' = [task EXCEPT ![t] = r]
    BY <1>1, <2>6 DEF Visit
  <2>7. ASSUME NEW l \in DOMAIN links, RetryNext(t, l) PROVE \E r : task' = [task EXCEPT ![t] = r]
    BY <1>1, <2>7 DEF RetryNext
  <2>q. QED
    BY <2>1, <2>3, <2>4, <2>5, <2>6, <2>7 DEF Proceed
<1>q. QED
    BY <1>1, <1>2 DEF Others

\* Only a begin or an unheard error adds to what is remembered.
LEMMA ProceedLeaves ==
    ASSUME Inv, NEW t \in Tasks, Proceed(t)
    PROVE  /\ UNCHANGED <<catalog, watch, overlapped, unheard>>
           /\ phase = "down" => phase' = "down"
           /\ task[t].pc # "idle"
<1>1. CASE ~VisitEnds(t)
    BY <1>1 DEF Proceed, Prune, Pruned, PruneEnds, Visit, Disabled, Replaced, ConnectOpens, ConnectFails,
       ConnectSucceeds, Settle, RetryEnds, RetryNext, Rejoin, Close, Closed, CloseEnds, past
<1>2. CASE VisitEnds(t)
    BY <1>2 DEF VisitEnds, past
<1>q. QED
    BY <1>1, <1>2

\* disconnect() of one object.
LEMMA DisconnectWrites ==
    ASSUME Inv, NEW l \in Ids, l <= Len(links), links' = Disconnected(l)
    PROVE  /\ Len(links') = Len(links)
           /\ \A i \in 1..Len(links) :
                /\ links'[i].server = links[i].server /\ links'[i].state = links[i].state
                /\ links'[i].entry = links[i].entry /\ links'[i].has = links[i].has
                /\ i # l => links'[i] = links[i]
                /\ links'[i].wire => links[i].wire /\ links'[i].held = links[i].held
<1>1. /\ SameBut(links', l)
      /\ l # 0 => /\ links'[l].state = links[l].state
                  /\ links'[l].entry = links[l].entry
                  /\ links'[l].has = links[l].has
                  /\ links[l].has /\ links[l].held => ~links'[l].wire
    BY DisconnectedTable, Parts
<1>2. ~(links[l].has /\ links[l].held) => links' = links
    BY DEF Disconnected, Closes
<1>q. QED
    BY <1>1, <1>2 DEF SameBut

\* The steps that take an object in hand to close its client.
LEMMA PruneDoes ==
    ASSUME Inv, NEW t \in Tasks, NEW s \in Servers, Prune(t, s)
    PROVE  /\ links' = Disconnected(servers[s]) /\ servers' = servers /\ phase' = phase
           /\ task[t].pc = "prune" /\ task[t].kind = "reload" /\ s \in task[t].todo
           /\ task'[t].pc = "pruning" /\ task'[t].kind = "reload" /\ task'[t].cat = task[t].cat
           /\ task'[t].todo = task[t].todo \ {s} /\ task'[t].srv = s /\ task'[t].cur = servers[s]
<1>1. /\ task \in [Tasks -> TaskRecords] /\ task[t] \in TaskRecords /\ Sound(t)
      /\ task[t].pc = "prune" /\ s \in task[t].todo /\ task[t].kind = "reload"
    BY Parts DEF StateOK, Prune, Sound
<1> DEFINE io == Closes(servers[s])
           l == servers[s]
<1>2. task' = [task EXCEPT ![t].todo = @ \ {s}, ![t].srv = s, ![t].cur = l,
                          ![t].io = io, ![t].pc = "pruning"]
    BY DEF Prune
<1>3. links' = Disconnected(l) /\ servers' = servers /\ phase' = phase
    BY DEF Prune
<1> HIDE DEF io, l
<1>4. /\ task'[t].pc = "pruning" /\ task'[t].kind = "reload" /\ task'[t].cat = task[t].cat
      /\ task'[t].todo = task[t].todo \ {s} /\ task'[t].srv = s /\ task'[t].cur = l
    BY <1>1, <1>2 DEF TaskRecords
<1>q. QED
    BY <1>1, <1>3, <1>4 DEF l

LEMMA ReconnectDoes ==
    ASSUME Inv, NEW t \in Tasks, NEW s \in Servers, Reconnect(t, s)
    PROVE  /\ links' = Disconnected(servers[s]) /\ phase = "up"
           /\ UNCHANGED <<servers, phase, catalog, watch, unheard>> /\ OtherBegins
           /\ servers[s] # 0 /\ links[servers[s]].entry # Off
           /\ task[t].pc = "idle" /\ task[t].kind = "none"
           /\ task'[t].pc = "rejoining" /\ task'[t].kind = "reconnect"
           /\ task'[t].srv = s /\ task'[t].cur = servers[s]
<1>1. /\ task \in [Tasks -> TaskRecords] /\ task[t] \in TaskRecords
      /\ task[t].pc = "idle" /\ task[t].kind = "none"
    BY Parts DEF StateOK, Reconnect, Begin, Sound
<1>q. QED
    BY <1>1 DEF Reconnect, Begin, Idle

LEMMA ShutdownStays ==
    ASSUME Inv, NEW t \in Tasks,
           Closed(t) \/ CloseEnds(t) \/ Destroy(t) \/ \E s \in Servers : Close(t, s)
    PROVE  phase' = "down"
<1>1. Sound(t)
    BY Parts
<1>q. QED
    BY <1>1 DEF Closed, CloseEnds, Close, Destroy, Sound

LEMMA VisitDoes ==
    ASSUME Inv, NEW t \in Tasks, NEW s \in Servers, Visit(t, s)
    PROVE  /\ task[t].pc = "visit" /\ s \in task[t].todo /\ phase' = phase /\ Walks(t)
           /\ task'[t].todo = task[t].todo \ {s} /\ task'[t].cat = task[t].cat
           /\ task'[t].kind = task[t].kind
           /\ \/ /\ task[t].cat[s] = Off /\ servers[s] = 0 /\ Put(links, s, Off, "disabled")
                 /\ task'[t].pc = "visit"
              \/ /\ Healthy(servers[s], task[t].cat[s]) /\ task[t].cat[s] # Off
                 /\ UNCHANGED <<servers, links>> /\ task'[t].pc = "visit"
              \/ /\ links' = Disconnected(servers[s]) /\ servers' = servers
                 /\ task'[t].srv = s /\ task'[t].cur = servers[s]
                 /\ \/ task'[t].pc = "disabling" /\ task[t].cat[s] = Off
                    \/ task'[t].pc = "replacing" /\ task[t].cat[s] # Off
<1>1. /\ task \in [Tasks -> TaskRecords] /\ task[t] \in TaskRecords
      /\ task[t].pc = "visit" /\ s \in task[t].todo /\ phase' = phase /\ Walks(t)
    BY Parts DEF StateOK, Visit, Sound, Walks
<1> DEFINE io == Closes(servers[s])
           l == servers[s]
           pc == IF task[t].cat[s] = Off THEN "disabling" ELSE "replacing"
<1>2. CASE task' = [task EXCEPT ![t].todo = @ \ {s}, ![t].srv = s, ![t].cur = l,
                                ![t].io = io, ![t].pc = pc]
           /\ links' = Disconnected(l) /\ servers' = servers
  <2> HIDE DEF io, l, pc
  <2>1. /\ task'[t].pc = pc
        /\ task'[t].kind = task[t].kind /\ task'[t].cat = task[t].cat
        /\ task'[t].todo = task[t].todo \ {s} /\ task'[t].srv = s /\ task'[t].cur = l
    BY <1>1, <1>2 DEF TaskRecords
  <2>q. QED
    BY <1>1, <1>2, <2>1 DEF l, pc
<1>3. CASE /\ task' = [task EXCEPT ![t].todo = @ \ {s}]
           /\ \/ task[t].cat[s] = Off /\ servers[s] = 0 /\ Put(links, s, Off, "disabled")
              \/ task[t].cat[s] # Off /\ Healthy(servers[s], task[t].cat[s]) /\ UNCHANGED <<servers, links>>
  <2>1. /\ task'[t].pc = "visit" /\ task'[t].kind = task[t].kind
        /\ task'[t].todo = task[t].todo \ {s} /\ task'[t].cat = task[t].cat
    BY <1>1, <1>3 DEF TaskRecords
  <2>q. QED
    BY <1>1, <1>3, <2>1
<1>q. QED
    BY <1>2, <1>3 DEF Visit, Released

\* The steps that are through with the object in hand.
LEMMA PrunedDoes ==
    ASSUME Inv, NEW t \in Tasks, Pruned(t)
    PROVE  /\ task[t].pc = "pruning" /\ task[t].kind = "reload" /\ phase' = phase
           /\ task[t].srv \in Servers /\ task[t].cur \in 0..Len(links)
           /\ servers' = [servers EXCEPT ![task[t].srv] = 0]
           /\ Len(links') = Len(links)
           /\ \A i \in 1..Len(links) :
                /\ links'[i].server = links[i].server /\ links'[i].state = links[i].state
                /\ links'[i].entry = links[i].entry /\ links'[i].held = links[i].held
                /\ links'[i].wire = links[i].wire /\ (links'[i].has => links[i].has)
                /\ i # task[t].cur => links'[i] = links[i]
                /\ i = task[t].cur => links[i].server = task[t].srv
           /\ task'[t].pc = "prune" /\ task'[t].kind = "reload" /\ task'[t].cur = 0
           /\ task'[t].todo = task[t].todo /\ task'[t].cat = task[t].cat
<1> DEFINE l == task[t].cur
<1>1. /\ task[t].pc = "pruning" /\ task[t].kind = "reload" /\ Sound(t)
      /\ l \in Ids /\ l \in 0..Len(links) /\ l <= Len(links) /\ StateOK
      /\ task[t].srv \in Servers /\ (l # 0 => links[l].server = task[t].srv)
    BY Parts DEF Pruned, Sound
<1>2. /\ links' = Bare(l) /\ servers' = [servers EXCEPT ![task[t].srv] = 0]
      /\ phase' = phase /\ Loop(t, "prune")
    BY DEF Pruned
<1>3. /\ task'[t].pc = "prune" /\ task'[t].kind = "reload" /\ task'[t].cur = 0
      /\ task'[t].todo = task[t].todo /\ task'[t].cat = task[t].cat
    BY <1>1, <1>2, LoopRecord DEF Labels
<1>4. /\ SameBut(links', l)
      /\ l # 0 => /\ links'[l].state = links[l].state /\ links'[l].entry = links[l].entry
                  /\ links'[l].held = links[l].held /\ links'[l].wire = links[l].wire
                  /\ ~links'[l].has
    BY <1>1, <1>2, BareTable
<1>q. QED
    BY <1>1, <1>2, <1>3, <1>4 DEF SameBut

LEMMA DisabledDoes ==
    ASSUME Inv, NEW t \in Tasks, Disabled(t)
    PROVE  /\ task[t].pc = "disabling" /\ Walks(t) /\ UNCHANGED <<phase, servers>>
           /\ task[t].srv \in Servers /\ task[t].cur \in 1..Len(links)
           /\ Len(links') = Len(links)
           /\ links'[task[t].cur].state = "disabled" /\ links'[task[t].cur].entry = Off
           /\ ~links'[task[t].cur].has
           /\ \A i \in 1..Len(links) :
                /\ links'[i].server = links[i].server
                /\ links'[i].held = links[i].held /\ links'[i].wire = links[i].wire
                /\ i # task[t].cur => links'[i] = links[i]
           /\ task'[t].pc = "visit" /\ task'[t].kind = task[t].kind /\ task'[t].cur = 0
           /\ task'[t].todo = task[t].todo /\ task'[t].cat = task[t].cat
<1> DEFINE l == task[t].cur
           o == [links[l] EXCEPT !.entry = Off, !.has = FALSE, !.state = "disabled"]
<1>1. /\ task[t].pc = "disabling" /\ Walks(t) /\ l \in 1..Len(links) /\ StateOK
      /\ links[l] \in Links /\ task[t].srv \in Servers
    BY Parts DEF Disabled, Sound, Walks
<1>2. /\ o \in Links /\ o.server = links[l].server /\ o.entry = Off /\ ~o.has
      /\ o.state = "disabled" /\ o.held = links[l].held /\ o.wire = links[l].wire
    BY <1>1 DEF Links
<1>3. links' = [links EXCEPT ![l] = o] /\ UNCHANGED <<servers, phase>> /\ Loop(t, "visit")
    BY <1>1, Parts DEF Disabled
<1> HIDE DEF o
<1>4. SameBut(links', l) /\ links'[l] = o
    BY <1>1, <1>2, <1>3, ObjectWritten
<1>5. /\ task'[t].pc = "visit" /\ task'[t].kind = task[t].kind /\ task'[t].cur = 0
      /\ task'[t].todo = task[t].todo /\ task'[t].cat = task[t].cat
    BY <1>3, LoopRecord DEF Labels
<1>q. QED
    BY <1>1, <1>2, <1>3, <1>4, <1>5 DEF SameBut

\* A fresh object e of server s, and everything else as it was but for the
\* client of object l.
Placed(s, e, l) ==
    /\ Len(links') = Len(links) + 1
    /\ servers' = [servers EXCEPT ![s] = Len(links')]
    /\ links'[Len(links')].server = s /\ links'[Len(links')].entry = e
    /\ links'[Len(links')].state # "connected" /\ ~links'[Len(links')].has
    /\ ~links'[Len(links')].wire
    /\ \A i \in 1..Len(links) :
         /\ links'[i].server = links[i].server /\ links'[i].state = links[i].state
         /\ links'[i].entry = links[i].entry /\ links'[i].held = links[i].held
         /\ links'[i].wire = links[i].wire /\ (links'[i].has => links[i].has)
         /\ i # l => links'[i] = links[i]

LEMMA PutPlaces ==
    ASSUME Inv, NEW s \in Servers, NEW e \in Entries \cup {Off}, NEW state \in {"disabled", "failed"},
           Put(links, s, e, state)
    PROVE  Placed(s, e, 0)
<1>1. SameBut(links, 0)
    BY Parts DEF SameBut
<1>2. /\ Len(links') = Len(links) + 1
      /\ \A i \in 1..Len(links) : links'[i] = links[i]
      /\ links'[Len(links')].server = s /\ links'[Len(links')].entry = e
      /\ links'[Len(links')].state = state /\ ~links'[Len(links')].has /\ ~links'[Len(links')].wire
      /\ servers' = [servers EXCEPT ![s] = Len(links')]
    BY <1>1, FreshObject
<1>q. QED
    BY <1>2 DEF Placed

LEMMA ReplacedDoes ==
    ASSUME Inv, NEW t \in Tasks, Replaced(t)
    PROVE  /\ task[t].pc = "replacing" /\ Walks(t) /\ phase' = phase
           /\ task[t].srv \in Servers /\ task[t].cat[task[t].srv] \in Entries
           /\ task[t].cur \in 0..Len(links)
           /\ task[t].cur # 0 => links[task[t].cur].server = task[t].srv
           /\ Placed(task[t].srv, task[t].cat[task[t].srv], 0)
           /\ task'[t].pc = "connecting" /\ task'[t].kind = task[t].kind
           /\ task'[t].cur = Len(links') /\ task'[t].todo = task[t].todo /\ task'[t].cat = task[t].cat
<1>1. /\ task[t] \in TaskRecords /\ task \in [Tasks -> TaskRecords]
      /\ task[t].pc = "replacing" /\ Walks(t) /\ task[t].srv \in Servers
      /\ task[t].cat[task[t].srv] \in Entries /\ task[t].cur \in 0..Len(links)
      /\ task[t].cur # 0 => links[task[t].cur].server = task[t].srv
    BY Parts DEF Replaced, Sound, StateOK, Walks
<1>2. Placed(task[t].srv, task[t].cat[task[t].srv], 0)
    BY <1>1, PutPlaces DEF Replaced, Connect
<1>q. QED
    BY <1>1, <1>2 DEF Replaced, TaskRecords

LEMMA RejoinDoes ==
    ASSUME Inv, NEW t \in Tasks, Rejoin(t)
    PROVE  /\ task[t].pc = "rejoining" /\ task[t].kind = "reconnect" /\ phase' = phase
           /\ task[t].srv \in Servers /\ task[t].cur \in 1..Len(links)
           /\ links[task[t].cur].server = task[t].srv
           /\ Placed(task[t].srv, links[task[t].cur].entry, task[t].cur)
           /\ task'[t].pc = "connecting" /\ task'[t].kind = "reconnect"
           /\ task'[t].cur = Len(links')
<1> DEFINE s == task[t].srv
           l == task[t].cur
           e == links[l].entry
<1>1. /\ task[t] \in TaskRecords /\ task \in [Tasks -> TaskRecords] /\ StateOK
      /\ task[t].pc = "rejoining" /\ task[t].kind = "reconnect"
      /\ s \in Servers /\ l \in 1..Len(links) /\ l \in Ids /\ links[l].server = s
      /\ links[l] \in Links
    BY Parts DEF Rejoin, Sound, StateOK
<1>2. e \in Entries \cup {Off}
    BY <1>1 DEF Links
<1>3. Put(Bare(l), s, e, "failed") /\ phase' = phase
    BY DEF Rejoin, Connect
<1>4. /\ SameBut(Bare(l), l)
      /\ Bare(l)[l].state = links[l].state /\ Bare(l)[l].entry = links[l].entry
      /\ Bare(l)[l].held = links[l].held /\ Bare(l)[l].wire = links[l].wire /\ ~Bare(l)[l].has
    BY <1>1, BareTable
<1>5. /\ task'[t].pc = "connecting" /\ task'[t].kind = "reconnect" /\ task'[t].cur = Len(links')
    BY <1>1 DEF Rejoin, TaskRecords
<1> HIDE DEF s, l, e
<1>6. /\ Len(links') = Len(links) + 1
      /\ \A i \in 1..Len(links) : links'[i] = Bare(l)[i]
      /\ links'[Len(links')].server = s /\ links'[Len(links')].entry = e
      /\ links'[Len(links')].state = "failed" /\ ~links'[Len(links')].has
      /\ ~links'[Len(links')].held /\ ~links'[Len(links')].wire
      /\ servers' = [servers EXCEPT ![s] = Len(links')]
    BY <1>1, <1>2, <1>3, <1>4, FreshObject
<1>7. Placed(s, e, l)
    BY <1>1, <1>4, <1>6 DEF Placed, SameBut
<1>q. QED
    BY <1>1, <1>3, <1>5, <1>7 DEF s, l, e

LEMMA RetryNextDoes ==
    ASSUME Inv, NEW t \in Tasks, NEW l \in DOMAIN links, RetryNext(t, l)
    PROVE  /\ task[t].pc = "retry" /\ task[t].kind = "retry" /\ phase' = phase
           /\ l \in task[t].todo /\ l \in 1..Len(links)
           /\ task'[t].kind = "retry" /\ task'[t].todo = task[t].todo \ {l}
           /\ \/ /\ links[l].server \in Servers /\ links[l].entry \in Entries
                 /\ Placed(links[l].server, links[l].entry, 0)
                 /\ task'[t].pc = "connecting" /\ task'[t].cur = Len(links')
              \/ UNCHANGED <<links, servers>> /\ task'[t].pc = "retry"
<1>1. /\ task[t] \in TaskRecords /\ task \in [Tasks -> TaskRecords] /\ links[l] \in Links
      /\ task[t].pc = "retry" /\ task[t].kind = "retry" /\ phase' = phase
      /\ l \in task[t].todo /\ l \in 1..Len(links)
    BY Parts DEF RetryNext, Sound, StateOK
<1>2. CASE /\ links[l].entry # Off /\ Connect(links, links[l].server, links[l].entry)
           /\ task' = [task EXCEPT ![t].pc = "connecting", ![t].io = FALSE, ![t].cur = Len(links'),
                                   ![t].todo = @ \ {l}, ![t].did = TRUE]
  <2>1. links[l].server \in Servers /\ links[l].entry \in Entries
    BY <1>1, <1>2 DEF Links
  <2>2. Placed(links[l].server, links[l].entry, 0)
    BY <1>2, <2>1, PutPlaces DEF Connect
  <2>3. /\ task'[t].pc = "connecting" /\ task'[t].kind = "retry" /\ task'[t].cur = Len(links')
        /\ task'[t].todo = task[t].todo \ {l}
    BY <1>1, <1>2 DEF TaskRecords
  <2>q. QED
    BY <1>1, <2>1, <2>2, <2>3
<1>3. CASE task' = [task EXCEPT ![t].todo = @ \ {l}] /\ UNCHANGED <<servers, links>>
  <2>1. task'[t].pc = "retry" /\ task'[t].kind = "retry" /\ task'[t].todo = task[t].todo \ {l}
    BY <1>1, <1>3 DEF TaskRecords
  <2>q. QED
    BY <1>1, <1>3, <2>1
<1>q. QED
    BY <1>2, <1>3 DEF RetryNext

\* The steps of an attempt write the object they connect.
LEMMA OpensDoes ==
    ASSUME Inv, NEW t \in Tasks, ConnectOpens(t)
    PROVE  /\ task[t].pc = "connecting" /\ UNCHANGED <<phase, servers>> /\ task[t].cur \in 1..Len(links)
           /\ Len(links') = Len(links)
           /\ links'[task[t].cur].held /\ links'[task[t].cur].wire
           /\ links'[task[t].cur].has = links[task[t].cur].has
           /\ \A i \in 1..Len(links) :
                /\ links'[i].server = links[i].server /\ links'[i].entry = links[i].entry
                /\ links'[i].state = links[i].state
                /\ i # task[t].cur => links'[i] = links[i]
           /\ task'[t].pc = "listing" /\ task'[t].kind = task[t].kind /\ task'[t].cur = task[t].cur
           /\ task'[t].todo = task[t].todo /\ task'[t].cat = task[t].cat
<1> DEFINE l == task[t].cur
           o == [links[l] EXCEPT !.held = TRUE, !.wire = TRUE]
<1>1. task[t].pc = "connecting"
    BY DEF ConnectOpens
<1>2. /\ l \in 1..Len(links) /\ links[l] \in Links
      /\ StateOK /\ task[t] \in TaskRecords /\ task \in [Tasks -> TaskRecords]
    BY <1>1, Parts DEF StateOK, Sound
<1>3. /\ o \in Links /\ o.server = links[l].server /\ o.entry = links[l].entry
      /\ o.state = links[l].state /\ o.has = links[l].has /\ o.held /\ o.wire
    BY <1>2 DEF Links
<1>4. /\ links' = [links EXCEPT ![l] = o] /\ UNCHANGED <<phase, servers>>
      /\ task' = [task EXCEPT ![t].pc = "listing"]
    BY <1>2, Parts DEF ConnectOpens
<1> HIDE DEF o
<1>5. SameBut(links', l) /\ links'[l] = o
    BY <1>2, <1>3, <1>4, ObjectWritten
<1>6. /\ task'[t].pc = "listing" /\ task'[t].kind = task[t].kind /\ task'[t].cur = l
      /\ task'[t].todo = task[t].todo /\ task'[t].cat = task[t].cat
    BY <1>2, <1>4 DEF TaskRecords
<1>q. QED
    BY <1>1, <1>2, <1>3, <1>4, <1>5, <1>6 DEF SameBut

LEMMA AttemptEndDoes ==
    ASSUME Inv, NEW t \in Tasks, ConnectFails(t) \/ ConnectSucceeds(t)
    PROVE  /\ task[t].pc \in {"connecting", "listing"} /\ UNCHANGED <<phase, servers>>
           /\ task[t].cur \in 1..Len(links) /\ Len(links') = Len(links)
           /\ \A i \in 1..Len(links) :
                /\ links'[i].server = links[i].server /\ links'[i].entry = links[i].entry
                /\ links'[i].held = links[i].held /\ links'[i].wire = links[i].wire
                /\ i # task[t].cur => links'[i] = links[i]
           /\ \/ links'[task[t].cur].state = "failed"
              \/ /\ links'[task[t].cur].state = "connected" /\ links'[task[t].cur].has
                 /\ links[task[t].cur].wire /\ task[t].pc = "listing"
           /\ \/ /\ task'[t].pc = "idle" /\ task'[t].kind = "none" /\ task[t].kind = "reconnect"
              \/ /\ task'[t].pc = (IF task[t].kind = "retry" THEN "retry" ELSE "visit")
                 /\ task[t].kind # "reconnect" /\ task'[t].kind = task[t].kind
                 /\ task'[t].todo = task[t].todo /\ task'[t].cat = task[t].cat
<1> DEFINE l == task[t].cur
           failed == [links[l] EXCEPT !.has = FALSE, !.state = "failed"]
           live == [links[l] EXCEPT !.has = TRUE, !.state = "connected"]
<1>1. /\ task[t].pc \in {"connecting", "listing"} /\ l \in 1..Len(links) /\ links[l] \in Links
      /\ StateOK /\ task[t] \in TaskRecords /\ task \in [Tasks -> TaskRecords] /\ links \in Seq(Links)
    BY Parts DEF ConnectFails, ConnectSucceeds, Sound, StateOK
<1>2. /\ failed \in Links /\ failed.server = links[l].server /\ failed.entry = links[l].entry
      /\ failed.held = links[l].held /\ failed.wire = links[l].wire /\ failed.state = "failed"
      /\ live \in Links /\ live.server = links[l].server /\ live.entry = links[l].entry
      /\ live.held = links[l].held /\ live.wire = links[l].wire /\ live.has
      /\ live.state = "connected"
    BY <1>1 DEF Links
<1>3. \/ links' = [links EXCEPT ![l] = failed]
      \/ links' = [links EXCEPT ![l] = live] /\ links[l].wire /\ task[t].pc = "listing"
    BY <1>1 DEF ConnectFails, ConnectSucceeds
<1>4. UNCHANGED <<phase, servers>> /\ task'[t] = Resumed(t)
    BY <1>1 DEF ConnectFails, ConnectSucceeds, Settle
<1> HIDE DEF failed, live
<1>5. /\ SameBut(links', l)
      /\ \/ links'[l] = failed
         \/ links'[l] = live /\ links[l].wire /\ task[t].pc = "listing"
    BY <1>1, <1>2, <1>3, ObjectWritten
<1>6. \/ /\ task'[t].pc = "idle" /\ task'[t].kind = "none" /\ task[t].kind = "reconnect"
      \/ /\ task'[t].pc = (IF task[t].kind = "retry" THEN "retry" ELSE "visit")
         /\ task[t].kind # "reconnect" /\ task'[t].kind = task[t].kind
         /\ task'[t].todo = task[t].todo /\ task'[t].cat = task[t].cat
    BY <1>1, <1>4 DEF Resumed, TaskRecords, Idle
<1>q. QED
    BY <1>1, <1>2, <1>4, <1>5, <1>6 DEF SameBut

\* A drop or an error writes its object, and what heard it marks it failed.
LEMMA EventDoes ==
    ASSUME Inv, NEW l \in DOMAIN links, LinkDrops(l) \/ LinkErrors(l)
    PROVE  /\ l \in 1..Len(links) /\ UNCHANGED <<catalog, watch, task, phase, servers, overlapped>>
           /\ Len(links') = Len(links)
           /\ \A i \in 1..Len(links) :
                /\ links'[i].server = links[i].server /\ links'[i].entry = links[i].entry
                /\ i # l => links'[i] = links[i]
                /\ (links'[i].has => links[i].has) /\ (links'[i].wire => links[i].wire)
           /\ ~links'[l].held
           /\ IF Current(l) THEN links'[l].state = "failed" ELSE links'[l].state = links[l].state
           /\ unheard \subseteq unheard'
           /\ links'[l].wire /\ ~links[l].has => l \in unheard'
<1> DEFINE k == [links[l] EXCEPT !.wire = FALSE, !.held = FALSE]
           n == [links[l] EXCEPT !.held = FALSE]
           x == [k EXCEPT !.has = FALSE, !.state = "failed"]
           y == [n EXCEPT !.has = FALSE, !.state = "failed"]
<1>1. /\ l \in 1..Len(links) /\ links[l] \in Links /\ links \in Seq(Links) /\ StateOK
      /\ UNCHANGED <<catalog, watch, task, phase, servers, overlapped>>
    BY Parts DEF LinkDrops, LinkErrors, Unavailable, past
<1>2. /\ k \in Links /\ k.server = links[l].server /\ k.entry = links[l].entry
      /\ k.state = links[l].state /\ k.has = links[l].has /\ ~k.wire /\ ~k.held
      /\ n \in Links /\ n.server = links[l].server /\ n.entry = links[l].entry
      /\ n.state = links[l].state /\ n.has = links[l].has /\ n.wire = links[l].wire /\ ~n.held
    BY <1>1 DEF Links
<1>3. /\ x \in Links /\ x.server = links[l].server /\ x.entry = links[l].entry
      /\ x.state = "failed" /\ ~x.has /\ ~x.wire /\ ~x.held
      /\ y \in Links /\ y.server = links[l].server /\ y.entry = links[l].entry
      /\ y.state = "failed" /\ ~y.has /\ y.wire = links[l].wire /\ ~y.held
    BY <1>1, <1>2 DEF Links
<1>4. CASE LinkDrops(l)
  <2>1. [links EXCEPT ![l].wire = FALSE, ![l].held = FALSE] = [links EXCEPT ![l] = k]
    BY <1>1
  <2>2. [[links EXCEPT ![l] = k] EXCEPT ![l].has = FALSE, ![l].state = "failed"] = [links EXCEPT ![l] = x]
    BY <1>1, <1>2
  <2>3. unheard' = unheard
    BY <1>4 DEF LinkDrops, past
  <2> HIDE DEF k, n, x, y
  <2>4. \/ Current(l) /\ links' = [links EXCEPT ![l] = x]
        \/ ~Current(l) /\ links' = [links EXCEPT ![l] = k]
    BY <1>4, <2>1, <2>2 DEF LinkDrops, Unavailable
  <2>5. /\ SameBut(links', l)
        /\ \/ Current(l) /\ links'[l] = x
           \/ ~Current(l) /\ links'[l] = k
    BY <1>1, <1>2, <1>3, <2>4, ObjectWritten
  <2>q. QED
    BY <1>1, <1>2, <1>3, <2>3, <2>5 DEF SameBut
<1>5. CASE LinkErrors(l)
  <2>1. [links EXCEPT ![l].held = FALSE] = [links EXCEPT ![l] = n]
    BY <1>1
  <2>2. [[links EXCEPT ![l] = n] EXCEPT ![l].has = FALSE, ![l].state = "failed"] = [links EXCEPT ![l] = y]
    BY <1>1, <1>2
  <2>3. unheard \subseteq unheard' /\ (~links[l].has => l \in unheard')
    BY <1>5 DEF LinkErrors
  <2> HIDE DEF k, n, x, y
  <2>4. \/ Current(l) /\ links' = [links EXCEPT ![l] = y]
        \/ ~Current(l) /\ links' = [links EXCEPT ![l] = n]
    BY <1>5, <2>1, <2>2 DEF LinkErrors, Unavailable
  <2>5. /\ SameBut(links', l)
        /\ \/ Current(l) /\ links'[l] = y
           \/ ~Current(l) /\ links'[l] = n
    BY <1>1, <1>2, <1>3, <2>4, ObjectWritten
  <2>q. QED
    BY <1>1, <1>2, <1>3, <2>3, <2>5 DEF SameBut
<1>q. QED
    BY <1>4, <1>5

-----------------------------------------------------------------------------
(* the connections that are shown                                          *)

\* The fields of an object.
LEMMA ObjectTypes ==
    ASSUME Inv
    PROVE  \A i \in 1..Len(links) : /\ links[i] \in Links /\ links[i].server \in Servers
                                    /\ links[i].entry \in Entries \cup {Off}
<1> SUFFICES ASSUME NEW i \in 1..Len(links)
             PROVE  /\ links[i] \in Links /\ links[i].server \in Servers
                    /\ links[i].entry \in Entries \cup {Off}
    OBVIOUS
<1>1. links[i] \in Links
    BY Parts
<1>q. QED
    BY <1>1 DEF Links

Attempting(t) == task[t].pc \in {"connecting", "listing"}

\* Every attempt has an object of its own, without a client until it succeeds.
Attempts ==
    \A t \in Tasks : Attempting(t) =>
      LET l == task[t].cur IN
      /\ ~links[l].has
      /\ task[t].pc = "listing" /\ links[l].wire => links[l].held \/ l \in unheard
      /\ \A u \in Tasks : u # t /\ Attempting(u) => task[u].cur # l

Shown(l) ==
    /\ servers[links[l].server] = l /\ links[l].state = "connected"
    /\ Untouched(l) /\ phase # "down"
Live(l) == links[l].has /\ links[l].wire /\ (links[l].held \/ l \in unheard)

UseInv ==
    phase # "down" => Attempts /\ \A l \in 1..Len(links) : Shown(l) => Live(l)

\* An object a step leaves alone is shown no sooner, and is as live.
LEMMA StaysShown ==
    ASSUME Inv, UseInv, NEW t \in Tasks, Others(t), phase = "down" => phase' = "down",
           unheard \subseteq unheard', NEW l \in 1..Len(links),
           links'[l].server = links[l].server, links'[l].state = links[l].state,
           links'[l].wire = links[l].wire, links'[l].held = links[l].held,
           links'[l].has = links[l].has,
           servers'[links[l].server] = l => servers[links[l].server] = l,
           \/ task[t].cur # l
           \/ task[t].pc \in {"idle", "prune", "visit", "retry"}
    PROVE  Shown(l)' => Live(l)'
<1> SUFFICES ASSUME Shown(l)' PROVE Live(l)'
    OBVIOUS
<1>1. Untouched(l)
    BY DEF Shown, Untouched, Others
<1>2. Shown(l)
    BY <1>1 DEF Shown
<1>q. QED
    BY <1>2 DEF UseInv, Live, Shown

LEMMA StaysAttempt ==
    ASSUME Inv, UseInv, phase # "down", NEW t \in Tasks, Others(t), Len(links) <= Len(links'),
           unheard \subseteq unheard',
           \A i \in 1..Len(links) : ~(Attempting(t) /\ task[t].cur = i) =>
             /\ links'[i].has => links[i].has
             /\ links'[i].wire => links[i].wire /\ (links[i].held => links'[i].held),
           Attempting(t)' =>
             /\ ~links'[task'[t].cur].has
             /\ task'[t].pc = "listing" /\ links'[task'[t].cur].wire =>
                  links'[task'[t].cur].held \/ task'[t].cur \in unheard'
             /\ \/ Attempting(t) /\ task'[t].cur = task[t].cur
                \/ task'[t].cur \notin 1..Len(links)
    PROVE  Attempts'
<1> SUFFICES ASSUME NEW u \in Tasks, Attempting(u)'
             PROVE  /\ ~links'[task'[u].cur].has
                    /\ task'[u].pc = "listing" /\ links'[task'[u].cur].wire =>
                         links'[task'[u].cur].held \/ task'[u].cur \in unheard'
                    /\ \A v \in Tasks : v # u /\ Attempting(v)' => task'[v].cur # task'[u].cur
    BY DEF Attempts, Attempting
<1>0. Attempts
    BY DEF UseInv
<1>1. ASSUME NEW v \in Tasks, v # t, Attempting(v)'
      PROVE  /\ task'[v] = task[v] /\ Attempting(v) /\ task[v].cur \in 1..Len(links)
             /\ ~(Attempting(t) /\ task[t].cur = task[v].cur)
             /\ Attempting(t)' => task'[t].cur # task[v].cur
  <2>1. task'[v] = task[v] /\ Attempting(v)
    BY <1>1 DEF Others, Attempting
  <2>2. task[v].cur \in 1..Len(links)
    BY <2>1, Parts DEF Sound, Attempting
  <2>3. ~(Attempting(t) /\ task[t].cur = task[v].cur)
    BY <1>0, <1>1, <2>1 DEF Attempts
  <2>q. QED
    BY <2>1, <2>2, <2>3
<1>2. CASE u = t
  <2>1. \A v \in Tasks : v # t /\ Attempting(v)' => task'[v].cur # task'[t].cur
    BY <1>1, <1>2
  <2>q. QED
    BY <1>2, <2>1
<1>3. CASE u # t
  <2>1. /\ task'[u] = task[u] /\ Attempting(u) /\ task[u].cur \in 1..Len(links)
        /\ ~(Attempting(t) /\ task[t].cur = task[u].cur)
        /\ Attempting(t)' => task'[t].cur # task[u].cur
    BY <1>1, <1>3
  <2>2. ~links'[task[u].cur].has
    BY <1>0, <2>1 DEF Attempts
  <2>3. task[u].pc = "listing" /\ links'[task[u].cur].wire =>
          links'[task[u].cur].held \/ task[u].cur \in unheard'
    BY <1>0, <2>1 DEF Attempts
  <2>4. ASSUME NEW v \in Tasks, v # u, Attempting(v)' PROVE task'[v].cur # task[u].cur
    <3>1. CASE v = t
      BY <2>1, <2>4, <3>1
    <3>2. CASE v # t
      BY <1>0, <1>1, <2>1, <2>4, <3>2 DEF Attempts
    <3>q. QED
      BY <3>1, <3>2
  <2>q. QED
    BY <2>1, <2>2, <2>3, <2>4
<1>q. QED
    BY <1>2, <1>3

\* A step that touches no object.
LEMMA LoopsUse ==
    ASSUME Inv, UseInv, NEW t \in Tasks, Others(t), UNCHANGED <<links, servers, unheard>>,
           phase = "down" => phase' = "down",
           task[t].pc \in {"idle", "prune", "visit", "retry"}, ~Attempting(t)'
    PROVE  UseInv'
<1> SUFFICES ASSUME phase' # "down" PROVE Attempts' /\ \A l \in 1..Len(links) : Shown(l)' => Live(l)'
    BY DEF UseInv
<1>1. Attempts'
    BY StaysAttempt, Parts
<1>2. \A l \in 1..Len(links) : Shown(l)' => Live(l)'
    BY StaysShown
<1>q. QED
    BY <1>1, <1>2

\* Closing a client takes its object in hand.
LEMMA DisconnectsUse ==
    ASSUME Inv, UseInv, NEW t \in Tasks, Others(t), NEW s \in Servers,
           links' = Disconnected(servers[s]), UNCHANGED <<servers, phase, unheard>>,
           task[t].pc \in {"idle", "prune", "visit", "retry"},
           task'[t].pc \in {"pruning", "disabling", "replacing", "rejoining"}, task'[t].cur = servers[s]
    PROVE  UseInv'
<1> SUFFICES ASSUME phase' # "down"
             PROVE  Attempts' /\ \A l \in 1..Len(links') : Shown(l)' => Live(l)'
    BY DEF UseInv
<1>1. /\ Len(links') = Len(links)
      /\ \A i \in 1..Len(links) :
           /\ links'[i].server = links[i].server /\ links'[i].state = links[i].state
           /\ links'[i].entry = links[i].entry /\ links'[i].has = links[i].has
           /\ i # servers[s] => links'[i] = links[i]
           /\ links'[i].wire => links[i].wire /\ links'[i].held = links[i].held
    BY Parts, DisconnectWrites DEF Ids
<1>2. Attempts'
  <2>1. ~Attempting(t)'
    BY DEF Attempting
  <2>q. QED
    BY <1>1, <2>1, StaysAttempt, Parts
<1>3. ASSUME NEW l \in 1..Len(links) PROVE Shown(l)' => Live(l)'
  <2>1. CASE l = servers[s]
    BY <2>1 DEF Shown, Untouched
  <2>2. CASE l # servers[s]
    BY <1>1, <2>2, StaysShown
  <2>q. QED
    BY <2>1, <2>2
<1>q. QED
    BY <1>1, <1>2, <1>3

LEMMA PrunedUses ==
    ASSUME Inv, UseInv, NEW t \in Tasks, Others(t), Pruned(t), unheard' = unheard
    PROVE  UseInv'
<1> SUFFICES ASSUME phase' # "down"
             PROVE  Attempts' /\ \A l \in 1..Len(links') : Shown(l)' => Live(l)'
    BY DEF UseInv
<1> DEFINE s == task[t].srv
<1>1. /\ task[t].pc = "pruning" /\ task[t].kind = "reload" /\ phase' = phase
      /\ s \in Servers /\ task[t].cur \in 0..Len(links)
      /\ servers' = [servers EXCEPT ![s] = 0]
      /\ Len(links') = Len(links)
      /\ \A i \in 1..Len(links) :
           /\ links'[i].server = links[i].server /\ links'[i].state = links[i].state
           /\ links'[i].entry = links[i].entry /\ links'[i].held = links[i].held
           /\ links'[i].wire = links[i].wire /\ (links'[i].has => links[i].has)
           /\ i # task[t].cur => links'[i] = links[i]
           /\ i = task[t].cur => links[i].server = s
      /\ task'[t].pc = "prune"
    BY PrunedDoes
<1>2. \A j \in Servers : servers'[j] = IF j = s THEN 0 ELSE servers[j]
    BY <1>1, Parts DEF StateOK
<1> HIDE DEF s
<1>3. Attempts'
  <2>1. ~Attempting(t)'
    BY PrunedDoes DEF Attempting
  <2>q. QED
    BY <1>1, <2>1, StaysAttempt, Parts
<1>4. ASSUME NEW l \in 1..Len(links) PROVE Shown(l)' => Live(l)'
  <2>1. links[l].server \in Servers
    BY ObjectTypes
  <2>2. CASE l = task[t].cur
    BY <1>1, <1>2, <2>1, <2>2 DEF Shown
  <2>3. CASE l # task[t].cur
    <3>1. servers'[links[l].server] = l => servers[links[l].server] = l
      BY <1>2, <2>1
    <3>q. QED
      BY <1>1, <2>3, <3>1, StaysShown
  <2>q. QED
    BY <2>2, <2>3
<1>q. QED
    BY <1>1, <1>3, <1>4

LEMMA DisabledUses ==
    ASSUME Inv, UseInv, NEW t \in Tasks, Others(t), Disabled(t), unheard' = unheard
    PROVE  UseInv'
<1> SUFFICES ASSUME phase' # "down"
             PROVE  Attempts' /\ \A l \in 1..Len(links') : Shown(l)' => Live(l)'
    BY DEF UseInv
<1>1. /\ task[t].pc = "disabling" /\ UNCHANGED <<phase, servers>>
      /\ task[t].cur \in 1..Len(links) /\ Len(links') = Len(links)
      /\ links'[task[t].cur].state = "disabled" /\ ~links'[task[t].cur].has
      /\ \A i \in 1..Len(links) :
           /\ links'[i].server = links[i].server
           /\ links'[i].held = links[i].held /\ links'[i].wire = links[i].wire
           /\ i # task[t].cur => links'[i] = links[i]
      /\ task'[t].pc = "visit"
    BY DisabledDoes
<1>2. Attempts'
  <2>1. ~Attempting(t)'
    BY <1>1 DEF Attempting
  <2>q. QED
    BY <1>1, <2>1, StaysAttempt, Parts
<1>3. ASSUME NEW l \in 1..Len(links) PROVE Shown(l)' => Live(l)'
  <2>1. CASE l = task[t].cur
    BY <1>1, <2>1 DEF Shown
  <2>2. CASE l # task[t].cur
    BY <1>1, <2>2, StaysShown
  <2>q. QED
    BY <2>1, <2>2
<1>q. QED
    BY <1>1, <1>2, <1>3

\* A fresh object is not connected; what it replaces leaves the map.
LEMMA PlacedUses ==
    ASSUME Inv, UseInv, NEW t \in Tasks, Others(t), unheard' = unheard, phase' = phase,
           NEW s \in Servers, NEW e, NEW l, Placed(s, e, l),
           \A i \in 1..Len(links) : i = l \/ (task[t].cur = i /\ task[t].pc \notin {"visit", "retry"}) =>
             links[i].server = s,
           ~Attempting(t), Attempting(t)' => task'[t].cur = Len(links')
    PROVE  UseInv'
<1> SUFFICES ASSUME phase' # "down"
             PROVE  Attempts' /\ \A i \in 1..Len(links') : Shown(i)' => Live(i)'
    BY DEF UseInv
<1>1. /\ Len(links') = Len(links) + 1 /\ Len(links) \in Nat
      /\ servers' = [servers EXCEPT ![s] = Len(links')]
      /\ links'[Len(links')].state # "connected" /\ ~links'[Len(links')].has
      /\ ~links'[Len(links')].wire
      /\ \A i \in 1..Len(links) :
         /\ links'[i].server = links[i].server /\ links'[i].state = links[i].state
         /\ links'[i].entry = links[i].entry /\ links'[i].held = links[i].held
         /\ links'[i].wire = links[i].wire /\ (links'[i].has => links[i].has)
         /\ i # l => links'[i] = links[i]
    BY Parts DEF Placed
<1>2. \A j \in Servers : servers'[j] = IF j = s THEN Len(links') ELSE servers[j]
    BY <1>1, Parts DEF StateOK
<1>3. Attempts'
    BY <1>1, StaysAttempt
<1>4. ASSUME NEW i \in 1..Len(links) PROVE Shown(i)' => Live(i)'
  <2>1. links[i].server \in Servers
    BY ObjectTypes
  <2>2. CASE links[i].server = s
    BY <1>1, <1>2, <2>2 DEF Shown
  <2>3. CASE links[i].server # s
    BY <1>1, <1>2, <2>1, <2>3, StaysShown
  <2>q. QED
    BY <2>2, <2>3
<1>5. ASSUME NEW i \in 1..Len(links'), i \notin 1..Len(links) PROVE ~Shown(i)'
  <2>1. i = Len(links')
    BY <1>1, <1>5
  <2>q. QED
    BY <1>1, <2>1 DEF Shown
<1>q. QED
    BY <1>1, <1>3, <1>4, <1>5

LEMMA OpensUse ==
    ASSUME Inv, UseInv, NEW t \in Tasks, Others(t), ConnectOpens(t), unheard' = unheard
    PROVE  UseInv'
<1> SUFFICES ASSUME phase' # "down"
             PROVE  Attempts' /\ \A l \in 1..Len(links') : Shown(l)' => Live(l)'
    BY DEF UseInv
<1>1. /\ task[t].pc = "connecting" /\ UNCHANGED <<phase, servers>> /\ task[t].cur \in 1..Len(links)
      /\ Len(links') = Len(links)
      /\ links'[task[t].cur].held /\ links'[task[t].cur].wire
      /\ links'[task[t].cur].has = links[task[t].cur].has
      /\ \A i \in 1..Len(links) :
           /\ links'[i].server = links[i].server /\ links'[i].entry = links[i].entry
           /\ links'[i].state = links[i].state
           /\ i # task[t].cur => links'[i] = links[i]
      /\ task'[t].pc = "listing" /\ task'[t].cur = task[t].cur
    BY OpensDoes
<1>2. ~links[task[t].cur].has
    BY <1>1 DEF UseInv, Attempts, Attempting
<1>3. Attempts'
  <2>1. Attempting(t)
    BY <1>1 DEF Attempting
  <2>2. ~links'[task'[t].cur].has /\ links'[task'[t].cur].held
    BY <1>1, <1>2
  <2>q. QED
    BY <1>1, <2>1, <2>2, StaysAttempt, Parts
<1>4. ASSUME NEW l \in 1..Len(links) PROVE Shown(l)' => Live(l)'
  <2>1. CASE l = task[t].cur
    BY <1>1, <2>1 DEF Shown, Untouched
  <2>2. CASE l # task[t].cur
    BY <1>1, <2>2, StaysShown
  <2>q. QED
    BY <2>1, <2>2
<1>q. QED
    BY <1>1, <1>3, <1>4

LEMMA EndsUse ==
    ASSUME Inv, UseInv, NEW t \in Tasks, Others(t), ConnectFails(t) \/ ConnectSucceeds(t),
           unheard' = unheard
    PROVE  UseInv'
<1> SUFFICES ASSUME phase' # "down"
             PROVE  Attempts' /\ \A l \in 1..Len(links') : Shown(l)' => Live(l)'
    BY DEF UseInv
<1>1. /\ task[t].pc \in {"connecting", "listing"} /\ UNCHANGED <<phase, servers>>
      /\ task[t].cur \in 1..Len(links) /\ Len(links') = Len(links)
      /\ \A i \in 1..Len(links) :
           /\ links'[i].server = links[i].server /\ links'[i].entry = links[i].entry
           /\ links'[i].held = links[i].held /\ links'[i].wire = links[i].wire
           /\ i # task[t].cur => links'[i] = links[i]
      /\ \/ links'[task[t].cur].state = "failed"
         \/ /\ links'[task[t].cur].state = "connected" /\ links'[task[t].cur].has
            /\ links[task[t].cur].wire /\ task[t].pc = "listing"
      /\ task'[t].pc \in {"idle", "retry", "visit"}
    BY AttemptEndDoes
<1>2. Attempts'
  <2>1. ~Attempting(t)' /\ Attempting(t)
    BY <1>1 DEF Attempting
  <2>q. QED
    BY <1>1, <2>1, StaysAttempt, Parts
<1>3. ASSUME NEW l \in 1..Len(links) PROVE Shown(l)' => Live(l)'
  <2>1. CASE l = task[t].cur
    <3>1. task[t].pc = "listing" /\ links[l].wire => links[l].held \/ l \in unheard
      BY <1>1, <2>1 DEF UseInv, Attempts, Attempting
    <3>q. QED
      BY <1>1, <2>1, <3>1 DEF Shown, Live
  <2>2. CASE l # task[t].cur
    BY <1>1, <2>2, StaysShown
  <2>q. QED
    BY <2>1, <2>2
<1>q. QED
    BY <1>1, <1>2, <1>3

\* A drop or an error of a connection that is shown is heard.
LEMMA EventsUse ==
    ASSUME Inv, UseInv, NEW l \in DOMAIN links, LinkDrops(l) \/ LinkErrors(l)
    PROVE  UseInv'
<1> SUFFICES ASSUME phase # "down"
             PROVE  Attempts' /\ \A i \in 1..Len(links') : Shown(i)' => Live(i)'
    BY EventDoes DEF UseInv
<1>1. /\ l \in 1..Len(links) /\ UNCHANGED <<task, phase, servers>>
      /\ Len(links') = Len(links)
      /\ \A i \in 1..Len(links) :
           /\ links'[i].server = links[i].server /\ links'[i].entry = links[i].entry
           /\ i # l => links'[i] = links[i]
           /\ (links'[i].has => links[i].has) /\ (links'[i].wire => links[i].wire)
      /\ ~links'[l].held
      /\ IF Current(l) THEN links'[l].state = "failed" ELSE links'[l].state = links[l].state
      /\ unheard \subseteq unheard'
      /\ links'[l].wire /\ ~links[l].has => l \in unheard'
    BY EventDoes
<1>e. /\ l \in 1..Len(links) /\ servers' = servers /\ task' = task /\ phase' = phase
      /\ (links'[l].has => links[l].has) /\ links'[l].server = links[l].server
      /\ links'[l].wire /\ ~links[l].has => l \in unheard'
      /\ ~Current(l) => links'[l].state = links[l].state
      /\ Current(l) => links'[l].state = "failed"
    BY <1>1
<1>f. \A i \in 1..Len(links) : i # l => links'[i] = links[i]
    BY <1>1
<1>g. unheard \subseteq unheard'
    BY <1>1
<1>2. Attempts /\ \A i \in 1..Len(links) : Shown(i) => Live(i)
    BY DEF UseInv
<1>3. Attempts'
  <2> SUFFICES ASSUME NEW t \in Tasks, Attempting(t)
               PROVE  /\ ~links'[task[t].cur].has
                      /\ task[t].pc = "listing" /\ links'[task[t].cur].wire =>
                           links'[task[t].cur].held \/ task[t].cur \in unheard'
    BY <1>1, <1>2 DEF Attempts, Attempting
  <2>1. task[t].cur \in 1..Len(links) /\ ~links[task[t].cur].has
    BY <1>2, Parts DEF Attempts, Attempting, Sound
  <2>2. task[t].pc = "listing" /\ links[task[t].cur].wire => links[task[t].cur].held \/ task[t].cur \in unheard
    BY <1>2 DEF Attempts
  <2>3. CASE task[t].cur = l
    <3>1. ~links'[l].has /\ (links'[l].wire => l \in unheard')
      BY <1>e, <2>1, <2>3
    <3>q. QED
      BY <2>3, <3>1
  <2>4. CASE task[t].cur # l
    <3>1. links'[task[t].cur] = links[task[t].cur] /\ unheard \subseteq unheard'
      BY <1>f, <1>g, <2>1, <2>4
    <3>q. QED
      BY <2>1, <2>2, <3>1
  <2>q. QED
    BY <2>3, <2>4
<1>4. ASSUME NEW i \in 1..Len(links), Shown(i)' PROVE Live(i)'
  <2>1. Untouched(i) /\ servers[links[i].server] = i
    BY <1>1, <1>4 DEF Shown, Untouched
  <2>2. CASE i = l
    <3>1. ~Current(l)
      BY <1>e, <1>4, <2>2 DEF Shown
    <3>2. links'[l].state = links[l].state /\ links'[l].state = "connected"
      BY <1>e, <1>4, <2>2, <3>1 DEF Shown
    <3>3. Shown(l)
      BY <2>1, <2>2, <3>2 DEF Shown
    <3>4. links[l].has
      BY <1>e, <1>2, <3>3 DEF Live
    <3>q. QED
      BY <2>1, <2>2, <3>1, <3>4 DEF Current
  <2>3. CASE i # l
    <3>1. links'[i] = links[i]
      BY <1>f, <2>3
    <3>2. Shown(i)
      BY <1>e, <1>4, <2>1, <3>1 DEF Shown
    <3>q. QED
      BY <1>2, <1>g, <3>1, <3>2 DEF Live
  <2>q. QED
    BY <2>2, <2>3
<1>q. QED
    BY <1>1, <1>3, <1>4

LEMMA ProceedUses ==
    ASSUME Inv, UseInv, NEW t \in Tasks, Proceed(t)
    PROVE  UseInv'
<1>1. /\ Others(t) /\ unheard' = unheard /\ (phase = "down" => phase' = "down")
    BY OthersKept, ProceedLeaves
<1>2. CASE PruneEnds(t) \/ VisitEnds(t) \/ RetryEnds(t)
  <2>1. /\ UNCHANGED <<links, servers>> /\ task[t].pc \in {"prune", "visit", "retry"}
    BY <1>2 DEF PruneEnds, VisitEnds, RetryEnds
  <2>2. task'[t].pc \in {"visit", "idle"}
    <3>1. task \in [Tasks -> TaskRecords] /\ task[t] \in TaskRecords
      BY Parts DEF StateOK
    <3>q. QED
      BY <1>2, <3>1 DEF PruneEnds, VisitEnds, RetryEnds, Idle, TaskRecords
  <2>q. QED
    BY <1>1, <2>1, <2>2, LoopsUse DEF Attempting
<1>3. ASSUME NEW s \in Servers, Prune(t, s) PROVE UseInv'
    BY <1>1, <1>3, PruneDoes, DisconnectsUse
<1>4. ASSUME NEW s \in Servers, Visit(t, s) PROVE UseInv'
  <2>1. /\ task[t].pc = "visit" /\ phase' = phase
        /\ \/ Put(links, s, Off, "disabled") /\ task'[t].pc = "visit"
           \/ UNCHANGED <<servers, links>> /\ task'[t].pc = "visit"
           \/ /\ links' = Disconnected(servers[s]) /\ servers' = servers /\ task'[t].cur = servers[s]
              /\ task'[t].pc \in {"disabling", "replacing"}
    BY <1>4, VisitDoes
  <2>2. CASE Put(links, s, Off, "disabled") /\ task'[t].pc = "visit"
    <3>1. Placed(s, Off, 0)
      BY <2>2, PutPlaces
    <3>2. ~Attempting(t) /\ ~Attempting(t)'
      BY <2>1, <2>2 DEF Attempting
    <3>q. QED
      BY <1>1, <2>1, <3>1, <3>2, PlacedUses
  <2>3. CASE UNCHANGED <<servers, links>> /\ task'[t].pc = "visit"
    BY <1>1, <2>1, <2>3, LoopsUse DEF Attempting
  <2>4. CASE /\ links' = Disconnected(servers[s]) /\ servers' = servers /\ task'[t].cur = servers[s]
             /\ task'[t].pc \in {"disabling", "replacing"}
    BY <1>1, <2>1, <2>4, DisconnectsUse
  <2>q. QED
    BY <2>1, <2>2, <2>3, <2>4
<1>5. CASE Pruned(t)
    BY <1>1, <1>5, PrunedUses
<1>6. CASE Disabled(t)
    BY <1>1, <1>6, DisabledUses
<1>7. CASE Replaced(t)
  <2>1. /\ Placed(task[t].srv, task[t].cat[task[t].srv], 0) /\ phase' = phase
        /\ task[t].srv \in Servers
        /\ task[t].cur # 0 => links[task[t].cur].server = task[t].srv
        /\ task[t].pc = "replacing" /\ task'[t].cur = Len(links')
    BY <1>7, ReplacedDoes
  <2>2. ~Attempting(t)
    BY <2>1 DEF Attempting
  <2>q. QED
    BY <1>1, <2>1, <2>2, PlacedUses
<1>8. CASE Rejoin(t)
  <2>1. /\ Placed(task[t].srv, links[task[t].cur].entry, task[t].cur) /\ phase' = phase
        /\ task[t].srv \in Servers /\ links[task[t].cur].server = task[t].srv
        /\ task[t].pc = "rejoining" /\ task'[t].cur = Len(links')
    BY <1>8, RejoinDoes
  <2>2. ~Attempting(t)
    BY <2>1 DEF Attempting
  <2>q. QED
    BY <1>1, <2>1, <2>2, PlacedUses
<1>9. ASSUME NEW l \in DOMAIN links, RetryNext(t, l) PROVE UseInv'
  <2>1. /\ task[t].pc = "retry" /\ phase' = phase
        /\ \/ /\ links[l].server \in Servers /\ Placed(links[l].server, links[l].entry, 0)
              /\ task'[t].cur = Len(links')
           \/ UNCHANGED <<links, servers>> /\ task'[t].pc = "retry"
    BY <1>9, RetryNextDoes
  <2>2. CASE /\ links[l].server \in Servers /\ Placed(links[l].server, links[l].entry, 0)
             /\ task'[t].cur = Len(links')
    <3>1. ~Attempting(t)
      BY <2>1 DEF Attempting
    <3>q. QED
      BY <1>1, <2>1, <2>2, <3>1, PlacedUses
  <2>3. CASE UNCHANGED <<links, servers>> /\ task'[t].pc = "retry"
    BY <1>1, <2>1, <2>3, LoopsUse DEF Attempting
  <2>q. QED
    BY <2>1, <2>2, <2>3
<1>10. CASE ConnectOpens(t)
    BY <1>1, <1>10, OpensUse
<1>11. CASE ConnectFails(t) \/ ConnectSucceeds(t)
    BY <1>1, <1>11, EndsUse
<1>12. CASE Closed(t) \/ CloseEnds(t) \/ \E s \in Servers : Close(t, s)
    BY <1>12, ShutdownStays DEF UseInv
<1>q. QED
    BY <1>2, <1>3, <1>4, <1>5, <1>6, <1>7, <1>8, <1>9, <1>10, <1>11, <1>12 DEF Proceed

LEMMA StartUses ==
    ASSUME Inv, UseInv, NEW t \in Tasks, Start(t)
    PROVE  UseInv'
<1>1. Others(t)
    BY OthersKept
<1>2. CASE Reload(t) \/ WatchFires(t) \/ RetryFires(t)
  <2>1. UNCHANGED <<links, servers, unheard, phase>> /\ task[t].pc = "idle"
    BY <1>2 DEF Reload, WatchFires, RetryFires, Begin
  <2>2. task'[t].pc \in {"prune", "retry"}
    BY <1>2, Parts, ZenonT(40) DEF Reload, WatchFires, RetryFires, Begin, Reloading, Idle, StateOK
  <2>q. QED
    BY <1>1, <2>1, <2>2, LoopsUse DEF Attempting
<1>3. CASE Destroy(t)
    BY <1>3, ShutdownStays DEF UseInv
<1>4. ASSUME NEW s \in Servers, Reconnect(t, s) PROVE UseInv'
    BY <1>1, <1>4, ReconnectDoes, DisconnectsUse
<1>q. QED
    BY <1>2, <1>3, <1>4 DEF Start

LEMMA UseStep == Inv /\ UseInv /\ [Next]_vars => UseInv'
<1> SUFFICES ASSUME Inv, UseInv, [Next]_vars PROVE UseInv'
    OBVIOUS
<1>1. ASSUME UNCHANGED <<links, servers, task, phase, unheard>> PROVE UseInv'
    BY <1>1 DEF UseInv, Attempts, Attempting, Shown, Live, Untouched
<1>2. ASSUME NEW s \in Servers, NEW e \in Entries \cup {Missing, Off}, EditCatalog(s, e) PROVE UseInv'
    BY <1>1, <1>2 DEF EditCatalog, past
<1>3. UNCHANGED vars => UseInv'
    BY <1>1 DEF vars
<1>q. QED
    BY <1>2, <1>3, ProceedUses, StartUses, EventsUse DEF Next

LEMMA UseInit == Init => UseInv
<1> SUFFICES ASSUME Init PROVE UseInv
    OBVIOUS
<1>1. \A t \in Tasks : task[t].pc \in {"visit", "idle"}
    BY DEF Init, Idle
<1>q. QED
    BY <1>1 DEF Init, UseInv, Attempts, Attempting

\* Whatever overlaps, drops, is refused or fails, a server the map calls
\* connected has a client with an open connection, which is still the client's
\* unless an error came before the client was in place.
THEOREM ConnectedStaysUsable == Spec => []ConnectedIsUsable
<1>1. Inv /\ UseInv => ConnectedIsUsable
  <2> SUFFICES ASSUME Inv, UseInv, NEW s \in Servers, servers[s] # 0,
                      links[servers[s]].state = "connected", Untouched(servers[s]), phase # "down"
               PROVE  Live(servers[s])
    BY DEF ConnectedIsUsable, Known, Live
  <2>1. servers[s] \in 1..Len(links) /\ links[servers[s]].server = s
    BY Parts DEF StateOK, Known
  <2>q. QED
    BY <2>1 DEF UseInv, Shown
<1>q. QED
    BY <1>1, UseInit, UseStep, Invariance, InvInit, InvNext, PTL DEF Spec

-----------------------------------------------------------------------------
(* the catalog                                                             *)

\* The entry a server is managed under, Missing when it is not managed.
EntryOf(s) == IF servers[s] = 0 THEN Missing ELSE links[servers[s]].entry
Linked(s) == servers[s] # 0 /\ links[servers[s]].state = "connected"

\* The map has applied entry e to server s.
Done(s, e) == EntryOf(s) = e /\ (e = Off => ~Linked(s))

\* A walk has server s still ahead.
Pending(t, s) ==
    LET r == task[t] IN
    \/ r.pc \in {"pruning", "disabling", "replacing"} /\ r.srv = s
    \/ r.pc \in {"prune", "pruning"} /\ (s \in r.todo \/ r.cat[s] # Missing)
    \/ r.pc \notin {"prune", "pruning"} /\ s \in r.todo

\* A walk by itself: what the map and the catalog differ by is ahead of it.
WalkInv(t) ==
    LET r == task[t] IN
    Walks(t) =>
      /\ \A u \in Tasks : u # t => task[u].pc = "idle"
      /\ ~watch => r.cat = catalog
      /\ \A s \in Servers : Done(s, r.cat[s]) \/ Pending(t, s)
      /\ r.pc = "disabling" => servers[r.srv] = r.cur /\ r.cat[r.srv] = Off

\* Outside of a walk, what a task is about to connect is what the catalog says.
NoWalk == \A t \in Tasks : ~Walks(t)
RestInv(t) ==
    LET r == task[t] IN
    /\ Attempting(t) \/ r.pc = "rejoining" => links[r.cur].entry # Off
    /\ NoWalk /\ ~watch /\ r.kind = "retry" =>
         \A l \in r.todo : l \in 1..Len(links) /\ links[l].entry = catalog[links[l].server]
    /\ NoWalk /\ ~watch /\ r.pc = "rejoining" => links[r.cur].entry = catalog[r.srv]

AppliedInv ==
    ~overlapped /\ phase # "down" =>
      /\ \A t \in Tasks : WalkInv(t) /\ RestInv(t)
      /\ NoWalk /\ ~watch => \A s \in Servers : Done(s, catalog[s])

\* The step leaves server s as applied as it was.
Keeps(s) == EntryOf(s)' = EntryOf(s) /\ (EntryOf(s) = Off /\ Linked(s)' => Linked(s))

\* Who walks is alone.
LEMMA WalkerIsAlone ==
    ASSUME Inv, AppliedInv, ~overlapped, phase # "down", NEW t \in Tasks, task[t].pc # "idle"
    PROVE  /\ Walks(t) => \A u \in Tasks : u # t => task[u].pc = "idle" /\ task[u].kind = "none"
           /\ ~Walks(t) => NoWalk
<1>1. ASSUME Walks(t), NEW u \in Tasks, u # t PROVE task[u].pc = "idle" /\ task[u].kind = "none"
    BY <1>1, Parts DEF AppliedInv, WalkInv, Sound
<1>2. ASSUME NEW u \in Tasks, Walks(u), u # t PROVE FALSE
    BY <1>2 DEF AppliedInv, WalkInv
<1>q. QED
    BY <1>1, <1>2 DEF NoWalk

\* A step of a walk that goes on.
LEMMA WalkGoesOn ==
    ASSUME Inv, AppliedInv, NEW t \in Tasks, Others(t), Walks(t), task[t].pc # "idle",
           UNCHANGED <<catalog, watch, overlapped>>, phase = "down" => phase' = "down",
           task'[t].kind = task[t].kind, task'[t].cat = task[t].cat, task'[t].pc # "rejoining",
           ~overlapped /\ phase # "down" =>
             /\ \A s \in Servers : Done(s, task[t].cat[s])' \/ Pending(t, s)'
             /\ task'[t].pc = "disabling" => servers'[task'[t].srv] = task'[t].cur /\ task'[t].cat[task'[t].srv] = Off
             /\ Attempting(t)' => links'[task'[t].cur].entry # Off
    PROVE  AppliedInv'
<1> SUFFICES ASSUME ~overlapped, phase # "down"
             PROVE  /\ \A u \in Tasks : WalkInv(u)' /\ RestInv(u)'
                    /\ ~NoWalk'
    BY DEF AppliedInv
<1>1. \A u \in Tasks : u # t => /\ task[u].pc = "idle" /\ task[u].kind = "none"
                                /\ task'[u].pc = "idle" /\ task'[u].kind = "none"
    BY WalkerIsAlone DEF Others
<1>2. Walks(t)' /\ ~NoWalk'
    BY DEF Walks, NoWalk
<1>3. WalkInv(t)'
  <2>1. ~watch' => task'[t].cat = catalog'
    BY DEF AppliedInv, WalkInv
  <2>2. \A s \in Servers : Done(s, task[t].cat[s])' \/ Pending(t, s)'
    OBVIOUS
  <2>q. QED
    BY <1>1, <2>1, <2>2 DEF WalkInv, Done
<1>4. RestInv(t)'
    BY <1>2 DEF RestInv
<1>5. ASSUME NEW u \in Tasks, u # t PROVE WalkInv(u)' /\ RestInv(u)'
    BY <1>1, <1>5 DEF WalkInv, RestInv, Walks, Attempting
<1>q. QED
    BY <1>2, <1>3, <1>4, <1>5

\* A step of another operation, which applies nothing new.
LEMMA RestGoesOn ==
    ASSUME Inv, AppliedInv, NEW t \in Tasks, Others(t), ~Walks(t), ~Walks(t)',
           UNCHANGED <<catalog, watch>>, phase = "down" => phase' = "down",
           ~overlapped' => ~overlapped /\ NoWalk,
           Len(links) <= Len(links'),
           \A i \in 1..Len(links) : links'[i].server = links[i].server /\ links'[i].entry = links[i].entry,
           ~overlapped /\ phase # "down" /\ NoWalk => RestInv(t)',
           ~overlapped /\ phase # "down" /\ NoWalk /\ ~watch => \A s \in Servers : Keeps(s)
    PROVE  AppliedInv'
<1> SUFFICES ASSUME ~overlapped', phase' # "down"
             PROVE  /\ \A u \in Tasks : WalkInv(u)' /\ RestInv(u)'
                    /\ ~watch => \A s \in Servers : Done(s, catalog[s])'
    BY DEF AppliedInv, Done
<1>1. ~overlapped /\ phase # "down" /\ NoWalk
    OBVIOUS
<1>2. \A u \in Tasks : ~Walks(u)'
    BY <1>1 DEF NoWalk, Walks, Others
<1>3. ASSUME NEW u \in Tasks, u # t PROVE RestInv(u)'
  <2>1. task'[u] = task[u] /\ RestInv(u)
    BY <1>1, <1>3 DEF Others, AppliedInv
  <2>2. Attempting(u) \/ task[u].pc = "rejoining" => task[u].cur \in 1..Len(links)
    BY Parts DEF Sound, Attempting
  <2>3. Attempting(u) \/ task[u].pc = "rejoining" => links'[task[u].cur].entry # Off
    BY <2>1, <2>2 DEF RestInv
  <2>4. ~watch /\ task[u].kind = "retry" =>
           \A l \in task[u].todo : l \in 1..Len(links') /\ links'[l].entry = catalog[links'[l].server]
    <3>1. ~watch /\ task[u].kind = "retry" =>
             \A l \in task[u].todo : l \in 1..Len(links) /\ links[l].entry = catalog[links[l].server]
      BY <1>1, <2>1 DEF RestInv
    <3>2. \A l \in 1..Len(links) : l \in 1..Len(links')
      <4>1. Len(links) \in Nat
        BY Parts
      <4>q. QED
        BY <4>1
    <3>q. QED
      BY <3>1, <3>2
  <2>5. ~watch /\ task[u].pc = "rejoining" => links'[task[u].cur].entry = catalog[task[u].srv]
    BY <1>1, <2>1, <2>2 DEF RestInv
  <2>q. QED
    BY <2>1, <2>3, <2>4, <2>5 DEF RestInv, Attempting
<1>4. ASSUME ~watch, NEW s \in Servers PROVE Done(s, catalog[s])'
  <2>1. Done(s, catalog[s]) /\ Keeps(s)
    BY <1>1, <1>4 DEF AppliedInv
  <2>q. QED
    BY <2>1 DEF Done, Keeps
<1>q. QED
    BY <1>1, <1>2, <1>3, <1>4 DEF WalkInv

\* An object that only changes its state or its connection keeps its server's entry.
LEMMA WritesKeep ==
    ASSUME Inv, NEW s \in Servers, servers'[s] = servers[s],
           \A i \in 1..Len(links) : links'[i].entry = links[i].entry,
           \A i \in 1..Len(links) : links'[i].state = "connected" =>
             links[i].state = "connected" \/ links[i].entry # Off
    PROVE  Keeps(s)
<1>1. servers[s] # 0 => servers[s] \in 1..Len(links)
    BY Parts
<1>q. QED
    BY <1>1 DEF Keeps, EntryOf, Linked

\* What was applied stays applied, for the catalog a task has read.
LEMMA KeptIsDone ==
    ASSUME NEW t \in Tasks, NEW s \in Servers, Keeps(s), task'[t].cat = task[t].cat, Done(s, task[t].cat[s])
    PROVE  Done(s, task[t].cat[s])'
BY DEF Keeps, Done

\* The loops of a walk.
LEMMA WalkLoops ==
    ASSUME Inv, AppliedInv, NEW t \in Tasks, Others(t), PruneEnds(t) \/ VisitEnds(t),
           UNCHANGED <<catalog, watch, overlapped>>, phase = "down" => phase' = "down"
    PROVE  AppliedInv'
<1>1. /\ task \in [Tasks -> TaskRecords] /\ task[t] \in TaskRecords /\ Sound(t) /\ Walks(t)
      /\ task[t].pc \in {"prune", "visit"} /\ task[t].todo = {}
    BY Parts DEF PruneEnds, VisitEnds, StateOK, Sound, Walks
<1>2. UNCHANGED <<servers, links>>
    BY DEF PruneEnds, VisitEnds
<1>3. ~overlapped /\ phase # "down" => \A s \in Servers : Done(s, task[t].cat[s]) \/ Pending(t, s)
    BY <1>1 DEF AppliedInv, WalkInv
<1>4. \A s \in Servers : Keeps(s)
    BY <1>2 DEF Keeps, EntryOf, Linked
<1>5. CASE PruneEnds(t)
  <2>1. /\ task[t].pc = "prune"
        /\ task'[t].pc = "visit" /\ task'[t].kind = task[t].kind /\ task'[t].cat = task[t].cat
        /\ task'[t].todo = Listed(task[t].cat)
    BY <1>1, <1>5 DEF PruneEnds, TaskRecords
  <2>2. ASSUME ~overlapped, phase # "down", NEW s \in Servers
        PROVE  Done(s, task[t].cat[s])' \/ Pending(t, s)'
    <3>1. CASE task[t].cat[s] = Missing
      <4>1. Done(s, task[t].cat[s])
        BY <1>1, <1>3, <2>1, <2>2, <3>1 DEF Pending
      <4>q. QED
        BY <1>4, <2>1, <4>1, KeptIsDone
    <3>2. CASE task[t].cat[s] # Missing
      BY <2>1, <3>2 DEF Pending, Listed
    <3>q. QED
      BY <3>1, <3>2
  <2>q. QED
    BY <1>1, <2>1, <2>2, WalkGoesOn DEF Attempting
<1>6. CASE VisitEnds(t)
  <2>1. task'[t].pc = "idle" /\ task'[t].kind = "none"
    BY <1>1, <1>6 DEF VisitEnds, Idle
  <2>2. SUFFICES ASSUME ~overlapped, phase # "down"
                 PROVE  /\ \A u \in Tasks : WalkInv(u)' /\ RestInv(u)'
                        /\ ~watch => \A s \in Servers : Done(s, catalog[s])'
    BY DEF AppliedInv, Done
  <2>3. \A u \in Tasks : task'[u].pc = "idle" /\ task'[u].kind = "none"
    BY <1>1, <2>1, <2>2, WalkerIsAlone DEF Others
  <2>4. \A u \in Tasks : WalkInv(u)' /\ RestInv(u)'
    BY <2>3 DEF WalkInv, RestInv, Walks, Attempting
  <2>5. ASSUME ~watch, NEW s \in Servers PROVE Done(s, catalog[s])'
    <3>1. task[t].cat = catalog
      BY <1>1, <2>2, <2>5 DEF AppliedInv, WalkInv
    <3>2. Done(s, catalog[s])
      BY <1>1, <1>3, <1>6, <2>2, <3>1 DEF Pending, VisitEnds
    <3>q. QED
      BY <1>4, <3>2 DEF Keeps, Done
  <2>q. QED
    BY <2>4, <2>5
<1>q. QED
    BY <1>5, <1>6

LEMMA WalkPrunes ==
    ASSUME Inv, AppliedInv, NEW t \in Tasks, Others(t), NEW s \in Servers, Prune(t, s),
           UNCHANGED <<catalog, watch, overlapped>>
    PROVE  AppliedInv'
<1>1. /\ links' = Disconnected(servers[s]) /\ servers' = servers /\ phase' = phase
      /\ task[t].pc = "prune" /\ task[t].kind = "reload"
      /\ task'[t].pc = "pruning" /\ task'[t].kind = "reload" /\ task'[t].cat = task[t].cat
      /\ task'[t].todo = task[t].todo \ {s} /\ task'[t].srv = s
    BY PruneDoes
<1>2. \A j \in Servers : Keeps(j)
  <2>1. \A i \in 1..Len(links) : links'[i].state = links[i].state /\ links'[i].entry = links[i].entry
    BY <1>1, Parts, DisconnectWrites DEF Ids
  <2>q. QED
    BY <1>1, <2>1, WritesKeep
<1>3. ASSUME ~overlapped, phase # "down", NEW j \in Servers
      PROVE  Done(j, task[t].cat[j])' \/ Pending(t, j)'
  <2>1. Done(j, task[t].cat[j]) \/ Pending(t, j)
    BY <1>1, <1>3 DEF AppliedInv, WalkInv, Walks
  <2>2. CASE Done(j, task[t].cat[j])
    BY <1>1, <1>2, <2>2, KeptIsDone
  <2>3. CASE Pending(t, j)
    BY <1>1, <2>3 DEF Pending
  <2>q. QED
    BY <2>1, <2>2, <2>3
<1>q. QED
    BY <1>1, <1>3, WalkGoesOn DEF Walks, Attempting

LEMMA WalkPruned ==
    ASSUME Inv, AppliedInv, NEW t \in Tasks, Others(t), Pruned(t),
           UNCHANGED <<catalog, watch, overlapped>>
    PROVE  AppliedInv'
<1> DEFINE s == task[t].srv
<1>1. /\ task[t].pc = "pruning" /\ task[t].kind = "reload" /\ phase' = phase
      /\ s \in Servers
      /\ servers' = [servers EXCEPT ![s] = 0]
      /\ \A i \in 1..Len(links) : links'[i].state = links[i].state /\ links'[i].entry = links[i].entry
      /\ task'[t].pc = "prune" /\ task'[t].kind = "reload"
      /\ task'[t].todo = task[t].todo /\ task'[t].cat = task[t].cat
    BY PrunedDoes
<1>2. \A j \in Servers : servers'[j] = IF j = s THEN 0 ELSE servers[j]
    BY <1>1, Parts DEF StateOK
<1>3. ASSUME ~overlapped, phase # "down", NEW j \in Servers
      PROVE  Done(j, task[t].cat[j])' \/ Pending(t, j)'
  <2>1. Done(j, task[t].cat[j]) \/ Pending(t, j)
    BY <1>1, <1>3 DEF AppliedInv, WalkInv, Walks
  <2>2. CASE j = s
    <3>1. EntryOf(j)' = Missing /\ ~Linked(j)'
      BY <1>2, <2>2 DEF EntryOf, Linked
    <3>2. task[t].cat[j] = Missing \/ task[t].cat[j] # Missing
      OBVIOUS
    <3>q. QED
      BY <1>1, <3>1, <3>2 DEF Done, Pending
  <2>3. CASE j # s
    <3>1. Keeps(j)
      BY <1>1, <1>2, <2>3, WritesKeep
    <3>2. CASE Done(j, task[t].cat[j])
      BY <1>1, <3>1, <3>2, KeptIsDone
    <3>3. CASE Pending(t, j)
      BY <1>1, <2>3, <3>3 DEF Pending
    <3>q. QED
      BY <2>1, <3>2, <3>3
  <2>q. QED
    BY <2>2, <2>3
<1>q. QED
    BY <1>1, <1>3, WalkGoesOn DEF Walks, Attempting

LEMMA WalkDisables ==
    ASSUME Inv, AppliedInv, NEW t \in Tasks, Others(t), Disabled(t),
           UNCHANGED <<catalog, watch, overlapped>>
    PROVE  AppliedInv'
<1>1. /\ task[t].pc = "disabling" /\ Walks(t) /\ UNCHANGED <<phase, servers>>
      /\ task[t].srv \in Servers /\ task[t].cur \in 1..Len(links)
      /\ links'[task[t].cur].state = "disabled" /\ links'[task[t].cur].entry = Off
      /\ \A i \in 1..Len(links) : i # task[t].cur => links'[i] = links[i]
      /\ task'[t].pc = "visit" /\ task'[t].kind = task[t].kind
      /\ task'[t].todo = task[t].todo /\ task'[t].cat = task[t].cat
    BY DisabledDoes
<1>2. ASSUME ~overlapped, phase # "down", NEW j \in Servers
      PROVE  Done(j, task[t].cat[j])' \/ Pending(t, j)'
  <2>1. /\ Done(j, task[t].cat[j]) \/ Pending(t, j)
        /\ servers[task[t].srv] = task[t].cur /\ task[t].cat[task[t].srv] = Off
    BY <1>1, <1>2 DEF AppliedInv, WalkInv
  <2>2. CASE j = task[t].srv
    <3>1. EntryOf(j)' = Off /\ ~Linked(j)'
      BY <1>1, <2>1, <2>2 DEF EntryOf, Linked
    <3>q. QED
      BY <1>1, <2>1, <2>2, <3>1 DEF Done
  <2>3. CASE j # task[t].srv
    <3>1. servers[j] # task[t].cur
      BY <1>1, <2>1, <2>3, Parts DEF StateOK, Known
    <3>2. Keeps(j)
      <4>1. servers[j] # 0 => servers[j] \in 1..Len(links)
        BY Parts
      <4>q. QED
        BY <1>1, <3>1, <4>1 DEF Keeps, EntryOf, Linked
    <3>3. CASE Done(j, task[t].cat[j])
      BY <1>1, <3>2, <3>3, KeptIsDone
    <3>4. CASE Pending(t, j)
      BY <1>1, <2>3, <3>4 DEF Pending
    <3>q. QED
      BY <2>1, <3>3, <3>4
  <2>q. QED
    BY <2>2, <2>3
<1>q. QED
    BY <1>1, <1>2, WalkGoesOn DEF Attempting

\* A fresh object of entry e applies e, and leaves the other servers alone.
LEMMA PlacedApplies ==
    ASSUME Inv, NEW s \in Servers, NEW e, NEW l, Placed(s, e, l)
    PROVE  /\ EntryOf(s)' = e /\ ~Linked(s)'
           /\ \A j \in Servers : j # s => Keeps(j)
<1>1. /\ Len(links) \in Nat /\ servers' = [servers EXCEPT ![s] = Len(links')]
      /\ Len(links') = Len(links) + 1
      /\ links'[Len(links')].entry = e /\ links'[Len(links')].state # "connected"
      /\ \A i \in 1..Len(links) : links'[i].state = links[i].state /\ links'[i].entry = links[i].entry
    BY Parts DEF Placed
<1>2. \A j \in Servers : servers'[j] = IF j = s THEN Len(links') ELSE servers[j]
    BY <1>1, Parts DEF StateOK
<1>3. EntryOf(s)' = e /\ ~Linked(s)'
    BY <1>1, <1>2 DEF EntryOf, Linked
<1>4. ASSUME NEW j \in Servers, j # s PROVE Keeps(j)
    BY <1>1, <1>2, <1>4, WritesKeep
<1>q. QED
    BY <1>3, <1>4

LEMMA WalkVisits ==
    ASSUME Inv, AppliedInv, NEW t \in Tasks, Others(t), NEW s \in Servers, Visit(t, s),
           UNCHANGED <<catalog, watch, overlapped>>
    PROVE  AppliedInv'
<1>1. /\ task[t].pc = "visit" /\ s \in task[t].todo /\ phase' = phase /\ Walks(t)
      /\ task'[t].todo = task[t].todo \ {s} /\ task'[t].cat = task[t].cat
      /\ task'[t].kind = task[t].kind
      /\ \/ /\ task[t].cat[s] = Off /\ Put(links, s, Off, "disabled")
            /\ task'[t].pc = "visit"
         \/ /\ Healthy(servers[s], task[t].cat[s]) /\ task[t].cat[s] # Off
            /\ UNCHANGED <<servers, links>> /\ task'[t].pc = "visit"
         \/ /\ links' = Disconnected(servers[s]) /\ servers' = servers
            /\ task'[t].srv = s /\ task'[t].cur = servers[s]
            /\ \/ task'[t].pc = "disabling" /\ task[t].cat[s] = Off
               \/ task'[t].pc = "replacing" /\ task[t].cat[s] # Off
    BY VisitDoes
<1>2. task'[t].pc \in {"visit", "disabling", "replacing"}
    BY <1>1
<1>3. \A j \in Servers : j # s => Keeps(j)
  <2>1. CASE Put(links, s, Off, "disabled")
    <3>1. Placed(s, Off, 0)
      BY <2>1, PutPlaces
    <3>q. QED
      BY <3>1, PlacedApplies
  <2>2. CASE UNCHANGED <<servers, links>>
    BY <2>2 DEF Keeps, EntryOf, Linked
  <2>3. CASE links' = Disconnected(servers[s]) /\ servers' = servers
    <3>1. \A i \in 1..Len(links) : links'[i].state = links[i].state /\ links'[i].entry = links[i].entry
      BY <2>3, Parts, DisconnectWrites DEF Ids
    <3>q. QED
      BY <2>3, <3>1, WritesKeep
  <2>q. QED
    BY <1>1, <2>1, <2>2, <2>3
<1>4. Done(s, task[t].cat[s])' \/ Pending(t, s)'
  <2>1. CASE task[t].cat[s] = Off /\ Put(links, s, Off, "disabled")
    <3>1. Placed(s, Off, 0)
      BY <2>1, PutPlaces
    <3>2. EntryOf(s)' = Off /\ ~Linked(s)'
      BY <3>1, PlacedApplies
    <3>q. QED
      BY <1>1, <2>1, <3>2 DEF Done
  <2>2. CASE Healthy(servers[s], task[t].cat[s]) /\ task[t].cat[s] # Off /\ UNCHANGED <<servers, links>>
    BY <1>1, <2>2 DEF Done, EntryOf, Linked, Healthy
  <2>3. CASE task'[t].srv = s /\ task'[t].pc \in {"disabling", "replacing"}
    BY <2>3 DEF Pending
  <2>q. QED
    BY <1>1, <2>1, <2>2, <2>3
<1>5. ASSUME ~overlapped, phase # "down", NEW j \in Servers
      PROVE  Done(j, task[t].cat[j])' \/ Pending(t, j)'
  <2>1. CASE j = s
    BY <1>4, <2>1
  <2>2. CASE j # s
    <3>1. Done(j, task[t].cat[j]) \/ Pending(t, j)
      BY <1>1, <1>5 DEF AppliedInv, WalkInv
    <3>2. CASE Done(j, task[t].cat[j])
      BY <1>1, <1>3, <2>2, <3>2, KeptIsDone
    <3>3. CASE Pending(t, j)
      BY <1>1, <1>2, <2>2, <3>3 DEF Pending
    <3>q. QED
      BY <3>1, <3>2, <3>3
  <2>q. QED
    BY <2>1, <2>2
<1>6. task'[t].pc = "disabling" => servers'[task'[t].srv] = task'[t].cur /\ task'[t].cat[task'[t].srv] = Off
    BY <1>1
<1>q. QED
    BY <1>1, <1>2, <1>5, <1>6, WalkGoesOn DEF Attempting

LEMMA WalkReplaces ==
    ASSUME Inv, AppliedInv, NEW t \in Tasks, Others(t), Replaced(t),
           UNCHANGED <<catalog, watch, overlapped>>
    PROVE  AppliedInv'
<1>s. PICK s, e : s = task[t].srv /\ e = task[t].cat[s]
    OBVIOUS
<1>1. /\ task[t].pc = "replacing" /\ Walks(t) /\ phase' = phase
      /\ s \in Servers /\ e \in Entries /\ Placed(s, e, 0)
      /\ task'[t].pc = "connecting" /\ task'[t].kind = task[t].kind
      /\ task'[t].cur = Len(links') /\ task'[t].todo = task[t].todo /\ task'[t].cat = task[t].cat
    BY <1>s, ReplacedDoes
<1>2. e # Off /\ task[t].cat[s] = e
    BY <1>1, <1>s, McpAssumption
<1>3. links'[task'[t].cur].entry # Off
    BY <1>1, <1>2 DEF Placed
<1>4. /\ EntryOf(s)' = e /\ ~Linked(s)'
      /\ \A j \in Servers : j # s => Keeps(j)
  <2>1. s \in Servers /\ e \in Entries /\ Placed(s, e, 0)
    BY <1>1
  <2>q. QED
    BY <2>1, PlacedApplies
<1>5. ASSUME ~overlapped, phase # "down", NEW j \in Servers
      PROVE  Done(j, task[t].cat[j])' \/ Pending(t, j)'
  <2>1. CASE j = s
    <3>1. EntryOf(s)' = e /\ ~Linked(s)' /\ task'[t].cat[s] = e
      BY <1>1, <1>2, <1>4
    <3>q. QED
      BY <2>1, <3>1 DEF Done
  <2>2. CASE j # s
    <3>1. Done(j, task[t].cat[j]) \/ Pending(t, j)
      BY <1>1, <1>5 DEF AppliedInv, WalkInv
    <3>2. CASE Done(j, task[t].cat[j])
      BY <1>1, <1>4, <2>2, <3>2, KeptIsDone
    <3>3. CASE Pending(t, j)
      BY <1>1, <1>s, <2>2, <3>3 DEF Pending
    <3>q. QED
      BY <3>1, <3>2, <3>3
  <2>q. QED
    BY <2>1, <2>2
<1>q. QED
    BY <1>1, <1>3, <1>5, WalkGoesOn

\* The steps of an attempt apply nothing.
LEMMA AttemptsApply ==
    ASSUME Inv, AppliedInv, NEW t \in Tasks, Others(t),
           ConnectOpens(t) \/ ConnectFails(t) \/ ConnectSucceeds(t),
           UNCHANGED <<catalog, watch, overlapped>>
    PROVE  AppliedInv'
<1>1. /\ Attempting(t) /\ UNCHANGED <<phase, servers>> /\ task[t].cur \in 1..Len(links)
      /\ Len(links') = Len(links) /\ task[t].pc # "idle"
      /\ \A i \in 1..Len(links) :
           /\ links'[i].server = links[i].server /\ links'[i].entry = links[i].entry
           /\ i # task[t].cur => links'[i] = links[i]
      /\ \/ /\ task'[t].pc = "listing" /\ task'[t].cur = task[t].cur
            /\ task'[t].kind = task[t].kind /\ task'[t].todo = task[t].todo /\ task'[t].cat = task[t].cat
         \/ task'[t].pc = "idle" /\ task'[t].kind = "none" /\ task[t].kind = "reconnect"
         \/ /\ task'[t].pc = (IF task[t].kind = "retry" THEN "retry" ELSE "visit")
            /\ task'[t].kind = task[t].kind /\ task'[t].todo = task[t].todo /\ task'[t].cat = task[t].cat
  <2>1. CASE ConnectOpens(t)
    BY <2>1, OpensDoes DEF Attempting
  <2>2. CASE ConnectFails(t) \/ ConnectSucceeds(t)
    BY <2>2, AttemptEndDoes DEF Attempting
  <2>q. QED
    BY <2>1, <2>2
<1>2. ASSUME ~overlapped, phase # "down" PROVE links[task[t].cur].entry # Off
    BY <1>1, <1>2 DEF AppliedInv, RestInv
<1>3. ASSUME ~overlapped, phase # "down", NEW s \in Servers PROVE Keeps(s)
  <2>1. \A i \in 1..Len(links) : links'[i].state = "connected" =>
          links[i].state = "connected" \/ links[i].entry # Off
    BY <1>1, <1>2, <1>3
  <2>q. QED
    BY <1>1, <2>1, WritesKeep
<1>4. CASE Walks(t)
  <2>1. /\ task'[t].pc \in {"listing", "visit"}
        /\ task'[t].kind = task[t].kind /\ task'[t].todo = task[t].todo /\ task'[t].cat = task[t].cat
    BY <1>1, <1>4 DEF Walks
  <2>2. Attempting(t)' => task'[t].cur = task[t].cur
    BY <1>1, <2>1 DEF Attempting
  <2>3. ASSUME ~overlapped, phase # "down", NEW s \in Servers
        PROVE  Done(s, task[t].cat[s])' \/ Pending(t, s)'
    <3>1. Done(s, task[t].cat[s]) \/ Pending(t, s)
      BY <1>4, <2>3 DEF AppliedInv, WalkInv
    <3>2. CASE Done(s, task[t].cat[s])
      BY <1>3, <2>1, <2>3, <3>2, KeptIsDone
    <3>3. CASE Pending(t, s)
      BY <1>1, <2>1, <3>3 DEF Pending, Attempting
    <3>q. QED
      BY <3>1, <3>2, <3>3
  <2>4. ~overlapped /\ phase # "down" /\ Attempting(t)' => links'[task'[t].cur].entry # Off
    BY <1>1, <1>2, <2>2
  <2>q. QED
    BY <1>1, <1>4, <2>1, <2>3, <2>4, WalkGoesOn
<1>5. CASE ~Walks(t)
  <2>1. ~Walks(t)'
    BY <1>1, <1>5 DEF Walks
  <2>2. ASSUME ~overlapped, phase # "down", NoWalk PROVE RestInv(t)'
    <3>1. RestInv(t)
      BY <2>2 DEF AppliedInv
    <3>2. Attempting(t)' => links'[task'[t].cur].entry # Off
      BY <1>1, <1>2, <2>2 DEF Attempting
    <3>3. task'[t].pc # "rejoining"
      BY <1>1
    <3>4. task'[t].kind = "retry" => task[t].kind = "retry" /\ task'[t].todo = task[t].todo
      BY <1>1
    <3>5. task'[t].kind = "retry" /\ ~watch =>
             \A l \in task'[t].todo : l \in 1..Len(links') /\ links'[l].entry = catalog[links'[l].server]
      BY <1>1, <2>2, <3>1, <3>4 DEF RestInv
    <3>q. QED
      BY <3>2, <3>3, <3>5 DEF RestInv
  <2>3. ~overlapped' /\ phase # "down" => NoWalk
    BY <1>1, <1>5, WalkerIsAlone
  <2>4. CASE overlapped \/ phase = "down"
    BY <1>1, <2>4 DEF AppliedInv
  <2>5. CASE ~overlapped /\ phase # "down"
    BY <1>1, <1>3, <1>5, <2>1, <2>2, <2>3, <2>5, RestGoesOn, Parts
  <2>q. QED
    BY <2>4, <2>5
<1>q. QED
    BY <1>4, <1>5

\* A retry or a reconnection connects what the map already has.
LEMMA RetriesApply ==
    ASSUME Inv, AppliedInv, NEW t \in Tasks, Others(t), NEW l \in DOMAIN links, RetryNext(t, l),
           UNCHANGED <<catalog, watch, overlapped>>
    PROVE  AppliedInv'
<1>1. /\ task[t].pc = "retry" /\ task[t].kind = "retry" /\ phase' = phase
      /\ l \in task[t].todo /\ l \in 1..Len(links)
      /\ task'[t].kind = "retry" /\ task'[t].todo = task[t].todo \ {l}
      /\ \/ /\ links[l].server \in Servers /\ links[l].entry \in Entries
            /\ Placed(links[l].server, links[l].entry, 0)
            /\ task'[t].pc = "connecting" /\ task'[t].cur = Len(links')
         \/ UNCHANGED <<links, servers>> /\ task'[t].pc = "retry"
    BY RetryNextDoes
<1>2. CASE overlapped \/ phase = "down"
    BY <1>1, <1>2 DEF AppliedInv
<1>3. CASE ~overlapped /\ phase # "down"
  <2>1. NoWalk /\ ~Walks(t) /\ ~Walks(t)' /\ RestInv(t)
    BY <1>1, <1>3, WalkerIsAlone DEF Walks, AppliedInv
  <2>2. CASE UNCHANGED <<links, servers>> /\ task'[t].pc = "retry"
    <3>1. \A s \in Servers : Keeps(s)
      BY <2>2 DEF Keeps, EntryOf, Linked
    <3>2. RestInv(t)'
      BY <1>1, <2>1, <2>2 DEF RestInv, Attempting
    <3>q. QED
      BY <1>1, <1>3, <2>1, <2>2, <3>1, <3>2, RestGoesOn, Parts
  <2>3. CASE /\ links[l].server \in Servers /\ links[l].entry \in Entries
             /\ Placed(links[l].server, links[l].entry, 0)
             /\ task'[t].pc = "connecting" /\ task'[t].cur = Len(links')
    <3>s. PICK s, e : s = links[l].server /\ e = links[l].entry
      OBVIOUS
    <3>1. /\ Len(links) \in Nat /\ Len(links') = Len(links) + 1
          /\ links'[Len(links')].entry = e
          /\ \A i \in 1..Len(links) : links'[i].server = links[i].server /\ links'[i].entry = links[i].entry
      BY <2>3, <3>s, Parts DEF Placed
    <3>2. s \in Servers /\ e # Off /\ Placed(s, e, 0)
      BY <2>3, <3>s, McpAssumption
    <3>3. ~watch => e = catalog[s]
      BY <1>1, <2>1, <3>s DEF RestInv
    <3>4. RestInv(t)'
      <4>1. links'[task'[t].cur].entry # Off
        BY <2>3, <3>1, <3>2
      <4>2. ~watch => \A i \in task'[t].todo : i \in 1..Len(links') /\ links'[i].entry = catalog[links'[i].server]
        <5>1. ~watch => \A i \in task[t].todo : i \in 1..Len(links) /\ links[i].entry = catalog[links[i].server]
          BY <1>1, <2>1 DEF RestInv
        <5>2. \A i \in 1..Len(links) : i \in 1..Len(links')
          BY <3>1
        <5>q. QED
          BY <1>1, <3>1, <5>1, <5>2
      <4>q. QED
        BY <2>3, <4>1, <4>2 DEF RestInv
    <3>5. EntryOf(s)' = e /\ ~Linked(s)' /\ \A j \in Servers : j # s => Keeps(j)
      BY <3>2, PlacedApplies
    <3>6. ASSUME ~watch, NEW j \in Servers PROVE Keeps(j)
      <4>1. Done(s, catalog[s])
        BY <1>3, <2>1, <3>2, <3>6 DEF AppliedInv
      <4>2. Keeps(s)
        BY <3>3, <3>5, <3>6, <4>1 DEF Keeps, Done
      <4>q. QED
        BY <3>5, <4>2
    <3>q. QED
      BY <1>1, <1>3, <2>1, <3>1, <3>4, <3>6, RestGoesOn
  <2>q. QED
    BY <1>1, <2>2, <2>3
<1>q. QED
    BY <1>2, <1>3

LEMMA RejoinApplies ==
    ASSUME Inv, AppliedInv, NEW t \in Tasks, Others(t), Rejoin(t),
           UNCHANGED <<catalog, watch, overlapped>>
    PROVE  AppliedInv'
<1>s. PICK s, l, e : s = task[t].srv /\ l = task[t].cur /\ e = links[l].entry
    OBVIOUS
<1>1. /\ task[t].pc = "rejoining" /\ task[t].kind = "reconnect" /\ phase' = phase
      /\ s \in Servers /\ l \in 1..Len(links) /\ Placed(s, e, l)
      /\ task'[t].pc = "connecting" /\ task'[t].kind = "reconnect" /\ task'[t].cur = Len(links')
    BY <1>s, RejoinDoes
<1>2. CASE overlapped \/ phase = "down"
    BY <1>1, <1>2 DEF AppliedInv
<1>3. CASE ~overlapped /\ phase # "down"
  <2>1. NoWalk /\ ~Walks(t) /\ ~Walks(t)' /\ RestInv(t)
    BY <1>1, <1>3, WalkerIsAlone DEF Walks, AppliedInv
  <2>2. /\ Len(links) \in Nat /\ Len(links') = Len(links) + 1
        /\ links'[Len(links')].entry = e
        /\ \A i \in 1..Len(links) : links'[i].server = links[i].server /\ links'[i].entry = links[i].entry
    BY <1>1, Parts DEF Placed
  <2>3. e # Off /\ (~watch => e = catalog[s])
    BY <1>1, <1>s, <2>1 DEF RestInv
  <2>4. RestInv(t)'
    BY <1>1, <2>2, <2>3 DEF RestInv
  <2>5. EntryOf(s)' = e /\ ~Linked(s)' /\ \A j \in Servers : j # s => Keeps(j)
    BY <1>1, PlacedApplies
  <2>6. ASSUME ~watch, NEW j \in Servers PROVE Keeps(j)
    <3>1. Done(s, catalog[s])
      BY <1>1, <1>3, <2>1, <2>6 DEF AppliedInv
    <3>2. Keeps(s)
      BY <2>3, <2>5, <2>6, <3>1 DEF Keeps, Done
    <3>q. QED
      BY <2>5, <3>2
  <2>q. QED
    BY <1>1, <1>3, <2>1, <2>2, <2>4, <2>6, RestGoesOn
<1>q. QED
    BY <1>2, <1>3

\* The end of a retry.
LEMMA RetryEndApplies ==
    ASSUME Inv, AppliedInv, NEW t \in Tasks, Others(t), RetryEnds(t),
           UNCHANGED <<catalog, watch, overlapped>>
    PROVE  AppliedInv'
<1>1. /\ task \in [Tasks -> TaskRecords] /\ task[t].pc = "retry" /\ task[t].kind = "retry"
      /\ UNCHANGED <<links, servers, phase>>
    BY Parts DEF RetryEnds, StateOK, Sound
<1>2. task'[t].pc = "idle" /\ task'[t].kind = "none"
    BY <1>1 DEF RetryEnds, Idle
<1>3. CASE overlapped \/ phase = "down"
    BY <1>1, <1>3 DEF AppliedInv
<1>4. CASE ~overlapped /\ phase # "down"
  <2>1. NoWalk /\ ~Walks(t) /\ ~Walks(t)'
    BY <1>1, <1>2, <1>4, WalkerIsAlone DEF Walks
  <2>2. \A s \in Servers : Keeps(s)
    BY <1>1 DEF Keeps, EntryOf, Linked
  <2>3. RestInv(t)'
    BY <1>2 DEF RestInv, Attempting
  <2>q. QED
    BY <1>1, <1>4, <2>1, <2>2, <2>3, RestGoesOn, Parts
<1>q. QED
    BY <1>3, <1>4

LEMMA ProceedApplies ==
    ASSUME Inv, AppliedInv, NEW t \in Tasks, Proceed(t)
    PROVE  AppliedInv'
<1>1. /\ Others(t) /\ UNCHANGED <<catalog, watch, overlapped>> /\ (phase = "down" => phase' = "down")
    BY OthersKept, ProceedLeaves
<1>2. CASE PruneEnds(t) \/ VisitEnds(t)
    BY <1>1, <1>2, WalkLoops
<1>3. CASE Pruned(t) \/ Disabled(t) \/ Replaced(t)
    BY <1>1, <1>3, WalkPruned, WalkDisables, WalkReplaces
<1>4. CASE ConnectOpens(t) \/ ConnectFails(t) \/ ConnectSucceeds(t)
    BY <1>1, <1>4, AttemptsApply
<1>5. CASE RetryEnds(t) \/ Rejoin(t)
    BY <1>1, <1>5, RetryEndApplies, RejoinApplies
<1>6. ASSUME NEW s \in Servers, Prune(t, s) \/ Visit(t, s) PROVE AppliedInv'
    BY <1>1, <1>6, WalkPrunes, WalkVisits
<1>7. ASSUME NEW l \in DOMAIN links, RetryNext(t, l) PROVE AppliedInv'
    BY <1>1, <1>7, RetriesApply
<1>8. CASE Closed(t) \/ CloseEnds(t) \/ \E s \in Servers : Close(t, s)
    BY <1>8, ShutdownStays DEF AppliedInv
<1>q. QED
    BY <1>2, <1>3, <1>4, <1>5, <1>6, <1>7, <1>8 DEF Proceed

\* A walk that begins beside nothing.
LEMMA WalkStarts ==
    ASSUME Inv, NEW t \in Tasks, Others(t), Begin(t, Reloading), WalkBegins,
           UNCHANGED <<catalog, servers, links, phase>>
    PROVE  AppliedInv'
<1> SUFFICES ASSUME ~overlapped'
             PROVE  (\A u \in Tasks : WalkInv(u)' /\ RestInv(u)') /\ ~NoWalk'
    BY DEF AppliedInv
<1>1. \A u \in Tasks : task[u].pc = "idle" /\ task[u].kind = "none"
    BY Parts DEF WalkBegins, Sound
<1>2. task'[t] = Reloading
    BY Parts DEF Begin, StateOK
<1>3. /\ task'[t].pc = "prune" /\ task'[t].kind = "reload" /\ task'[t].cat = catalog
      /\ task'[t].todo = Known \ Listed(catalog)
    BY <1>2 DEF Reloading, Idle
<1>4. \A u \in Tasks : u # t => task'[u].pc = "idle" /\ task'[u].kind = "none"
    BY <1>1 DEF Others
<1>5. ASSUME NEW s \in Servers PROVE Done(s, task[t].cat[s])' \/ Pending(t, s)'
  <2>1. CASE catalog[s] # Missing \/ servers[s] # 0
    BY <1>3, <2>1 DEF Pending, Known, Listed
  <2>2. CASE catalog[s] = Missing /\ servers[s] = 0
    BY <1>3, <2>2 DEF Done, EntryOf, Linked
  <2>q. QED
    BY <2>1, <2>2
<1>6. WalkInv(t)' /\ RestInv(t)' /\ ~NoWalk'
  <2>1. Walks(t)' /\ ~NoWalk'
    BY <1>3 DEF Walks, NoWalk
  <2>q. QED
    BY <1>3, <1>4, <1>5, <2>1 DEF WalkInv, RestInv, Attempting
<1>q. QED
    BY <1>4, <1>6 DEF WalkInv, RestInv, Walks, Attempting

\* The other operations that begin.
LEMMA RetryStarts ==
    ASSUME Inv, AppliedInv, NEW t \in Tasks, Others(t), RetryFires(t)
    PROVE  AppliedInv'
<1>1. /\ UNCHANGED <<catalog, servers, links, watch, phase>> /\ OtherBegins
      /\ task[t].pc = "idle" /\ task[t].kind = "none"
    BY Parts DEF RetryFires, Begin, Sound
<1>2. task'[t].pc = "retry" /\ task'[t].kind = "retry" /\ task'[t].todo = {servers[s] : s \in Known}
    BY Parts DEF RetryFires, Begin, StateOK, Idle
<1>3. ~overlapped' => ~overlapped /\ NoWalk
    BY <1>1 DEF OtherBegins, NoWalk
<1>4. \A s \in Servers : Keeps(s)
    BY <1>1 DEF Keeps, EntryOf, Linked
<1>5. ASSUME ~overlapped, phase # "down", NoWalk PROVE RestInv(t)'
  <2>1. ASSUME ~watch, NEW l \in task'[t].todo
        PROVE  l \in 1..Len(links) /\ links[l].entry = catalog[links[l].server]
    <3>1. PICK s \in Known : l = servers[s]
      BY <1>2, <2>1
    <3>2. s \in Servers /\ servers[s] # 0 /\ l \in 1..Len(links) /\ links[l].server = s
      BY <3>1, Parts DEF Known, StateOK
    <3>3. Done(s, catalog[s])
      BY <1>5, <2>1, <3>2 DEF AppliedInv
    <3>q. QED
      BY <3>1, <3>2, <3>3 DEF Done, EntryOf
  <2>q. QED
    BY <1>1, <1>2, <2>1 DEF RestInv, Attempting
<1>6. ~Walks(t) /\ ~Walks(t)'
    BY <1>1, <1>2 DEF Walks
<1>q. QED
    BY <1>1, <1>3, <1>4, <1>5, <1>6, RestGoesOn, Parts

LEMMA ReconnectStarts ==
    ASSUME Inv, AppliedInv, NEW t \in Tasks, Others(t), NEW s \in Servers, Reconnect(t, s)
    PROVE  AppliedInv'
<1>1. /\ links' = Disconnected(servers[s])
      /\ UNCHANGED <<servers, phase, catalog, watch>> /\ OtherBegins
      /\ servers[s] # 0 /\ links[servers[s]].entry # Off
      /\ task[t].pc = "idle" /\ task[t].kind = "none"
      /\ task'[t].pc = "rejoining" /\ task'[t].kind = "reconnect"
      /\ task'[t].srv = s /\ task'[t].cur = servers[s]
    BY ReconnectDoes
<1>2. /\ Len(links') = Len(links) /\ servers[s] \in 1..Len(links)
      /\ \A i \in 1..Len(links) :
           /\ links'[i].server = links[i].server /\ links'[i].state = links[i].state
           /\ links'[i].entry = links[i].entry
    BY <1>1, Parts, DisconnectWrites DEF Ids
<1>3. ~overlapped' => ~overlapped /\ NoWalk
    BY <1>1 DEF OtherBegins, NoWalk
<1>4. \A j \in Servers : Keeps(j)
    BY <1>1, <1>2, WritesKeep
<1>5. ASSUME ~overlapped, phase # "down", NoWalk PROVE RestInv(t)'
  <2>1. ~watch => links[servers[s]].entry = catalog[s]
    BY <1>1, <1>5 DEF AppliedInv, Done, EntryOf
  <2>2. links'[servers[s]].entry = links[servers[s]].entry
    BY <1>2
  <2>q. QED
    BY <1>1, <2>1, <2>2 DEF RestInv, Attempting
<1>6. ~Walks(t) /\ ~Walks(t)'
    BY <1>1 DEF Walks
<1>q. QED
    BY <1>1, <1>2, <1>3, <1>4, <1>5, <1>6, RestGoesOn, Parts

\* A step of no task: an edit, a drop or an error, or none at all.
LEMMA ElseApplies ==
    ASSUME Inv, AppliedInv, UNCHANGED <<task, servers, overlapped>>, phase' = phase,
           watch' \/ (UNCHANGED <<catalog, watch>>),
           \A i \in 1..Len(links) :
             /\ links'[i].server = links[i].server /\ links'[i].entry = links[i].entry
             /\ links'[i].state = "connected" => links[i].state = "connected",
           Len(links') = Len(links)
    PROVE  AppliedInv'
<1> SUFFICES ASSUME ~overlapped, phase # "down"
             PROVE  /\ \A t \in Tasks : WalkInv(t)' /\ RestInv(t)'
                    /\ NoWalk /\ ~watch' => \A s \in Servers : Done(s, catalog[s])'
    BY DEF AppliedInv, NoWalk, Walks, Done
<1>1. \A s \in Servers : Keeps(s)
    BY WritesKeep
<1>2. ASSUME NEW t \in Tasks PROVE WalkInv(t)'
  <2>1. WalkInv(t) /\ UNCHANGED <<task, servers>> /\ (watch' \/ UNCHANGED <<catalog, watch>>)
    BY DEF AppliedInv
  <2>2. ASSUME Walks(t), NEW s \in Servers PROVE Done(s, task[t].cat[s])' \/ Pending(t, s)'
    <3>1. Done(s, task[t].cat[s]) \/ Pending(t, s)
      BY <2>1, <2>2 DEF WalkInv
    <3>2. CASE Done(s, task[t].cat[s])
      BY <1>1, <2>1, <3>2, KeptIsDone
    <3>3. CASE Pending(t, s)
      BY <2>1, <3>3 DEF Pending
    <3>q. QED
      BY <3>1, <3>2, <3>3
  <2>3. Walks(t)' = Walks(t)
    BY <2>1 DEF Walks
  <2>q. QED
    BY <2>1, <2>2, <2>3 DEF WalkInv
<1>3. ASSUME NEW t \in Tasks PROVE RestInv(t)'
  <2>1. RestInv(t)
    BY DEF AppliedInv
  <2>2. Attempting(t) \/ task[t].pc = "rejoining" => task[t].cur \in 1..Len(links)
    BY Parts DEF Sound, Attempting
  <2>3. NoWalk' = NoWalk
    BY DEF NoWalk, Walks
  <2>q. QED
    BY <2>1, <2>2, <2>3 DEF RestInv, Attempting
<1>4. ASSUME NoWalk, ~watch', NEW s \in Servers PROVE Done(s, catalog[s])'
  <2>1. UNCHANGED <<catalog, watch>>
    BY <1>4
  <2>2. Done(s, catalog[s]) /\ Keeps(s)
    BY <1>1, <1>4, <2>1 DEF AppliedInv
  <2>q. QED
    BY <2>1, <2>2 DEF Done, Keeps
<1>q. QED
    BY <1>2, <1>3, <1>4

LEMMA AppliedStep == Inv /\ AppliedInv /\ [Next]_vars => AppliedInv'
<1> SUFFICES ASSUME Inv, AppliedInv, [Next]_vars PROVE AppliedInv'
    OBVIOUS
<1>1. ASSUME NEW t \in Tasks, Start(t) PROVE AppliedInv'
  <2>1. Others(t)
    BY <1>1, OthersKept
  <2>2. CASE Reload(t) \/ WatchFires(t)
    BY <2>1, <2>2, WalkStarts DEF Reload, WatchFires
  <2>3. CASE Destroy(t)
    BY <2>3, ShutdownStays DEF AppliedInv
  <2>q. QED
    BY <1>1, <2>1, <2>2, <2>3, RetryStarts, ReconnectStarts DEF Start
<1>2. ASSUME NEW s \in Servers, NEW e \in Entries \cup {Missing, Off}, EditCatalog(s, e) PROVE AppliedInv'
  <2>1. UNCHANGED <<task, servers, overlapped, phase, links>> /\ watch'
    BY <1>2 DEF EditCatalog, past
  <2>q. QED
    BY <2>1, ElseApplies
<1>3. ASSUME NEW l \in DOMAIN links, LinkDrops(l) \/ LinkErrors(l) PROVE AppliedInv'
  <2>1. /\ UNCHANGED <<catalog, watch, task, phase, servers, overlapped>>
        /\ Len(links') = Len(links)
        /\ \A i \in 1..Len(links) :
             /\ links'[i].server = links[i].server /\ links'[i].entry = links[i].entry
             /\ i # l => links'[i] = links[i]
        /\ IF Current(l) THEN links'[l].state = "failed" ELSE links'[l].state = links[l].state
    BY <1>3, EventDoes
  <2>2. \A i \in 1..Len(links) : links'[i].state = "connected" => links[i].state = "connected"
    BY <2>1
  <2>q. QED
    BY <2>1, <2>2, ElseApplies
<1>4. CASE UNCHANGED vars
    BY <1>4, ElseApplies DEF vars
<1>q. QED
    BY <1>1, <1>2, <1>3, <1>4, ProceedApplies DEF Next

LEMMA AppliedInit == Init => AppliedInv
<1> SUFFICES ASSUME Init PROVE AppliedInv
    OBVIOUS
<1>1. PICK boot \in Tasks :
        task = [t \in Tasks |->
                  IF t = boot
                    THEN [Idle EXCEPT !.kind = "initialize", !.pc = "visit",
                                      !.cat = catalog, !.todo = Listed(catalog)]
                    ELSE Idle]
    BY DEF Init
<1>2. /\ task[boot].kind = "initialize" /\ task[boot].pc = "visit" /\ task[boot].cat = catalog
      /\ task[boot].todo = Listed(catalog)
      /\ \A t \in Tasks : t # boot => task[t].kind = "none" /\ task[t].pc = "idle"
    BY <1>1 DEF Idle
<1>3. \A s \in Servers : servers[s] = 0
    BY DEF Init
<1>4. \A s \in Servers : Done(s, catalog[s]) \/ Pending(boot, s)
    BY <1>2, <1>3 DEF Done, EntryOf, Linked, Pending, Listed
<1>q. QED
    BY <1>2, <1>4 DEF AppliedInv, WalkInv, RestInv, NoWalk, Walks, Attempting

\* Unless another operation ran beside the last walk, the walks leave the map
\* with the servers of the catalog, each under its entry, however drops,
\* refusals, errors, retries and reconnections fall between.
THEOREM WalksApplyTheCatalog == Spec => []CatalogIsApplied
<1>1. Inv /\ AppliedInv => CatalogIsApplied
  <2> SUFFICES ASSUME Inv, AppliedInv, NoWalk, ~watch, phase = "up", ~overlapped, NEW s \in Servers
               PROVE  IF catalog[s] = Missing THEN servers[s] = 0
                      ELSE /\ servers[s] # 0
                           /\ links[servers[s]].entry = catalog[s]
                           /\ catalog[s] = Off => links[servers[s]].state # "connected"
    BY DEF CatalogIsApplied, Applied, NoWalk
  <2>1. Done(s, catalog[s])
    BY DEF AppliedInv
  <2>2. servers[s] # 0 => links[servers[s]].entry # Missing
    BY Parts, ObjectTypes, McpAssumption DEF Missing, Off
  <2>q. QED
    BY <2>1, <2>2 DEF Done, EntryOf, Linked
<1>q. QED
    BY <1>1, AppliedInit, AppliedStep, Invariance, InvInit, InvNext, PTL DEF Spec
=============================================================================
