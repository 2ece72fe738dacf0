----------------------- MODULE GameServerSerialProofs -----------------------
(***************************************************************************)
(* When the jobs on one client do not overlap, sends succeed and there is  *)
(* no tick task, the two tables agree and act like one place per player,   *)
(* and only packets of its own session move a player: proofs for every set *)
(* of clients, keys, levels and tasks.                                     *)
(***************************************************************************)
EXTENDS GameServerProofs

(* What the tables say of one client.                                      *)
Agrees(c) == \A l \in LevelIds : c \in Players(l) <=> LevelOf(c) = l
OnlyOn(c, l) == \A k \in LevelIds : c \in Players(k) <=> k = l
Nowhere(c) == \A k \in LevelIds : c \notin Players(k)

Busy(w) == packet[w] # NoPacket

IsEntry(w) == packet[w].kind = "UserLevelEntry"

(* A worker has a packet from its first section to its last; two workers   *)
(* never have packets of the same client.                                  *)
OneJobPerClient ==
  /\ \A w \in Workers : Busy(w) <=> pc[w] \notin {"idle", "kick"}
  /\ \A v, w \in Workers : Busy(v) /\ Busy(w) /\ Client(v) = Client(w) => v = w

(* Between the sections that change one table and the other, what the      *)
(* tables say of a client depends on how far its worker is.                *)
JobFacts(w, c) ==
  /\ pc[w] \in {"verify", "add_client", "keepalive", "remove_client", "entry",
                "exit", "data", "sign_in", "reject", "store"} => Agrees(c)
  /\ pc[w] \in {"sign_in", "reject"} => LevelOf(c) = NoLevel
  /\ pc[w] = "store" => level_id[w] = LevelOf(c)
  /\ pc[w] \in {"leave", "announce_exit", "record_level"} =>
       OnlyOn(c, level_id[w])
  /\ pc[w] \in {"reap", "announce_join", "join"} => Nowhere(c)
  /\ pc[w] = "announce_exit" => LevelOf(c) = NoLevel
  /\ pc[w] \in {"remove_client", "exit", "announce_exit"} => ~IsEntry(w)
  /\ pc[w] \in {"leave", "reap"} =>
       IF IsEntry(w) THEN Known(c) ELSE LevelOf(c) = NoLevel
  /\ pc[w] \in {"announce_join", "join", "record_level"} => Known(c)

JobInv(w) == JobFacts(w, Client(w))

SerialInv ==
  /\ tick_pc = "idle"
  /\ OneJobPerClient
  /\ \A c \in Clients : ~InFlight(c) => Agrees(c)
  /\ \A w \in Workers : Busy(w) => JobInv(w)

-----------------------------------------------------------------------------
(* A step leaves a client alone when the tables say the same of it after.  *)
Same(d) ==
  /\ \A l \in LevelIds : d \in Players(l)' <=> d \in Players(l)
  /\ LevelOf(d)' = LevelOf(d)
  /\ Known(d)' = Known(d)

LEMMA SameFacts ==
  ASSUME NEW d, Same(d)
  PROVE  /\ Agrees(d)' <=> Agrees(d)
         /\ Nowhere(d)' <=> Nowhere(d)
         /\ \A l : OnlyOn(d, l)' <=> OnlyOn(d, l)
         /\ LevelOf(d)' = LevelOf(d)
         /\ Known(d)' <=> Known(d)
  BY DEF Same, Agrees, Nowhere, OnlyOn

LEMMA SentinelIsNoLevel == NoLevel \notin LevelIds
  BY LevelKeyNotSentinel DEF LevelIds

LEMMA BusyClient ==
  ASSUME TypeInv, NEW w \in Workers, Busy(w)
  PROVE  packet[w] \in Packets \cup Kicks /\ Client(w) \in Clients
  BY PacketFields DEF TypeInv, TypeOK, Busy, Client

(* What is known of a job outlives the steps that leave its client alone.  *)
LEMMA OtherJobs ==
  ASSUME NEW v \in Workers, NEW c, JobInv(v), Client(v) = c, Same(c),
         pc'[v] = pc[v], packet'[v] = packet[v], level_id'[v] = level_id[v]
  PROVE  JobInv(v)'
<1>1. Client(v)' = c /\ IsEntry(v)' = IsEntry(v)
  BY DEF Client, IsEntry
<1>2. /\ Agrees(c)' <=> Agrees(c)
      /\ Nowhere(c)' <=> Nowhere(c)
      /\ \A l : OnlyOn(c, l)' <=> OnlyOn(c, l)
      /\ LevelOf(c)' = LevelOf(c)
      /\ Known(c)' <=> Known(c)
  BY SameFacts
<1> QED
  BY <1>1, <1>2 DEF JobInv, JobFacts

(* One worker's step: its own client may change, every other stays as it   *)
(* is; the worker goes on, or it is done and the tables agree again.       *)
MovesOn(w) == packet'[w] = packet[w] /\ pc'[w] \notin {"idle", "kick"} /\ JobInv(w)'
IsDone(w, c) == packet'[w] = NoPacket /\ pc'[w] \in {"idle", "kick"} /\ Agrees(c)'

LEMMA WorkerStep ==
  ASSUME TypeInv, SerialInv, NEW w \in Workers, Busy(w),
         NEW c, c = Client(w),
         tick_pc' = tick_pc,
         \A d \in Clients \ {c} : Same(d),
         \A v \in Workers \ {w} : /\ pc'[v] = pc[v]
                                  /\ packet'[v] = packet[v]
                                  /\ level_id'[v] = level_id[v],
         MovesOn(w) \/ IsDone(w, c)
  PROVE  SerialInv'
<1>1. ASSUME NEW v \in Workers \ {w}, Busy(v)
      PROVE  JobInv(v)'
  <2>1. JobInv(v)
    BY <1>1 DEF SerialInv
  <2>2. PICK d : d = Client(v)
    OBVIOUS
  <2>3. d \in Clients \ {c}
    BY <1>1, <2>2, BusyClient DEF SerialInv, OneJobPerClient
  <2> QED
    BY <2>1, <2>2, <2>3, OtherJobs
<1>2. ASSUME NEW d \in Clients, ~InFlight(d)'
      PROVE  Agrees(d)'
  <2>1. CASE d = c
    BY <1>2, <2>1 DEF MovesOn, IsDone, InFlight, Busy, Client
  <2>2. CASE d # c
    <3>1. ~InFlight(d)
      BY <1>2, <2>2 DEF InFlight, Client
    <3> QED
      BY <2>2, <3>1, SameFacts DEF SerialInv
  <2> QED
    BY <2>1, <2>2
<1>3. OneJobPerClient'
  <2>1. \A v \in Workers \ {w} : (Busy(v)' <=> Busy(v)) /\ Client(v)' = Client(v)
    BY DEF Busy, Client
  <2>2. Busy(w)' => Client(w)' = Client(w)
    BY DEF MovesOn, IsDone, Busy, Client
  <2>3. Busy(w)' <=> pc'[w] \notin {"idle", "kick"}
    BY DEF MovesOn, IsDone, Busy
  <2> QED
    BY <2>1, <2>2, <2>3 DEF SerialInv, OneJobPerClient
<1>4. Busy(w)' => JobInv(w)'
  BY DEF MovesOn, IsDone, Busy
<1>5. \A v \in Workers \ {w} : Busy(v)' <=> Busy(v)
  BY DEF Busy
<1> QED
  BY <1>1, <1>2, <1>3, <1>4, <1>5 DEF SerialInv

-----------------------------------------------------------------------------
(* What each kind of table change does to the facts.                       *)
LEMMA UnchangedTables ==
  ASSUME UNCHANGED <<connected_clients, levels>>
  PROVE  \A d : Same(d)
  BY DEF Same, LevelOf, Known, Players

(* A client's other fields say nothing about its place.                    *)
LEMMA OtherFields ==
  ASSUME levels' = levels,
         DOMAIN connected_clients' = DOMAIN connected_clients,
         \A d \in DOMAIN connected_clients :
           connected_clients'[d].level = connected_clients[d].level
  PROVE  \A d : Same(d)
  BY DEF Same, LevelOf, Known, Players

LEMMA LevelRecorded ==
  ASSUME TypeInv, NEW c, NEW l, SetLevel({c}, l), levels' = levels
  PROVE  /\ \A d \in Clients \ {c} : Same(d)
         /\ Known(c)' <=> Known(c)
         /\ Known(c) => LevelOf(c)' = l
         /\ \A k : Players(k)' = Players(k)
  BY DEF TypeInv, TypeOK, SetLevel, Same, LevelOf, Known, Players, ClientData

LEMMA ClientInserted ==
  ASSUME TypeInv, NEW c, NEW key, ~Known(c), levels' = levels,
         connected_clients' = With(connected_clients, c, NewClient(key))
  PROVE  /\ \A d \in Clients \ {c} : Same(d)
         /\ LevelOf(c) = NoLevel /\ LevelOf(c)' = NoLevel
         /\ \A k : Players(k)' = Players(k)
  BY DEF TypeInv, TypeOK, With, NewClient, Same, LevelOf, Known, Players

LEMMA ClientRemoved ==
  ASSUME TypeInv, NEW c, levels' = levels,
         connected_clients' = Without(connected_clients, c)
  PROVE  /\ \A d \in Clients \ {c} : Same(d)
         /\ LevelOf(c)' = NoLevel
         /\ \A k : Players(k)' = Players(k)
  BY DEF TypeInv, TypeOK, Without, Restrict, Same, LevelOf, Known, Players

LEMMA PlayerLeaves ==
  ASSUME TypeInv, NEW c, NEW l \in DOMAIN levels,
         levels' = [levels EXCEPT ![l] = @ \ {c}],
         connected_clients' = connected_clients
  PROVE  /\ \A d \in Clients \ {c} : Same(d)
         /\ LevelOf(c)' = LevelOf(c) /\ (Known(c)' <=> Known(c))
         /\ c \notin Players(l)'
         /\ \A k \in LevelIds \ {l} : Players(k)' = Players(k)
  BY DEF TypeInv, TypeOK, Same, LevelOf, Known, Players

LEMMA PlayerJoins ==
  ASSUME TypeInv, NEW c, NEW l \in LevelIds,
         levels' = With(levels, l, Players(l) \cup {c}),
         connected_clients' = connected_clients
  PROVE  /\ \A d \in Clients \ {c} : Same(d)
         /\ LevelOf(c)' = LevelOf(c) /\ (Known(c)' <=> Known(c))
         /\ c \in Players(l)'
         /\ \A k \in LevelIds \ {l} : Players(k)' = Players(k)
  BY DEF TypeInv, TypeOK, With, Same, LevelOf, Known, Players

(* retain() drops only levels whose players are nobody.                    *)
LEMMA ReapingMovesNobody ==
  ASSUME TypeInv, Reap
  PROVE  \A d : Same(d)
  BY DEF TypeInv, TypeOK, Reap, Restrict, Same, LevelOf, Known, Players

-----------------------------------------------------------------------------
(* A worker ends: done, whatever it had left the tables agreeing.          *)
LEMMA Returns ==
  ASSUME TypeInv, NEW w \in Workers, Return(w), NEW c, Agrees(c)'
  PROVE  IsDone(w, c)
  BY DEF TypeInv, TypeOK, Return, Rest, IsDone

LEMMA OthersKeepLocals ==
  ASSUME NEW w \in Workers,
         TypeInv,
         \/ \E label : Goto(w, label)
         \/ \E label, l : GotoWith(w, label, l)
         \/ Return(w)
  PROVE  \A v \in Workers \ {w} : /\ pc'[v] = pc[v]
                                  /\ packet'[v] = packet[v]
                                  /\ level_id'[v] = level_id[v]
  BY DEF TypeInv, TypeOK, Goto, GotoWith, Return

LEMMA GoesOn ==
  ASSUME TypeInv, NEW w \in Workers, NEW c, Client(w) = c,
         NEW label \in Labels \ {"idle", "kick"},
         Goto(w, label) \/ \E l : GotoWith(w, label, l),
         JobFacts(w, c)'
  PROVE  MovesOn(w)
<1>1. packet' = packet /\ pc'[w] = label
  BY DEF TypeInv, TypeOK, Goto, GotoWith
<1>2. Client(w)' = c
  BY <1>1 DEF Client
<1> QED
  BY <1>1, <1>2 DEF MovesOn, JobInv

(* The steps of a task or of the janitor on the client it works for.       *)
Serially == Serial /\ ~SendFails /\ ~TickBased

LEMMA StepKeepsSerial ==
  ASSUME Serially, TypeInv, SerialInv, NEW w \in Workers, Step(w)
  PROVE  SerialInv'
<1> PICK c : c = Client(w)
  OBVIOUS
<1>1. /\ Busy(w) /\ pc[w] \notin {"idle", "kick"} /\ JobInv(w)
      /\ c \in Clients /\ packet[w] \in Packets \cup Kicks
  <2>1. pc[w] \notin {"idle", "kick"}
    BY DEF Step, Verify, RefuseClient, AddClient, SignIn, Reject, Keepalive,
      RemoveClient, LeaveLevel, SpawnReaper, EnterLevel, AnnounceJoin, Announce,
      JoinLevel, RecordLevel, ExitLevel, AnnounceExit, ReadLevel, StoreData
  <2> QED
    BY <2>1, BusyClient DEF SerialInv, OneJobPerClient
<1>2. tick_pc' = tick_pc
  BY DEF Step, Verify, RefuseClient, AddClient, SignIn, Reject, Keepalive,
    RemoveClient, LeaveLevel, SpawnReaper, EnterLevel, AnnounceJoin, Announce,
    JoinLevel, RecordLevel, ExitLevel, AnnounceExit, ReadLevel, StoreData, tick
<1>3. \A v \in Workers \ {w} : /\ pc'[v] = pc[v]
                               /\ packet'[v] = packet[v]
                               /\ level_id'[v] = level_id[v]
  <2>1. \/ \E label : Goto(w, label)
        \/ \E label, l : GotoWith(w, label, l)
        \/ Return(w)
    BY DEF Step, Verify, RefuseClient, AddClient, SignIn, Reject, Keepalive,
      RemoveClient, LeaveLevel, SpawnReaper, AfterLeave, EnterLevel,
      AnnounceJoin, Announce, JoinLevel, RecordLevel, ExitLevel, AnnounceExit,
      ReadLevel, StoreData
  <2> QED
    BY <2>1, OthersKeepLocals
<1> SUFFICES /\ \A d \in Clients \ {c} : Same(d)
             /\ MovesOn(w) \/ IsDone(w, c)
  BY <1>1, <1>2, <1>3, WorkerStep
<1>f. JobFacts(w, c) /\ TypeOK /\ NoLevel \notin LevelIds
  BY <1>1, SentinelIsNoLevel DEF JobInv, TypeInv
<1>g. ASSUME NEW label \in Labels, Goto(w, label)
      PROVE  pc'[w] = label /\ level_id'[w] = level_id[w] /\ IsEntry(w)' = IsEntry(w)
  BY <1>g DEF TypeInv, TypeOK, Goto, IsEntry
<1>h. ASSUME NEW label \in Labels, NEW l, GotoWith(w, label, l)
      PROVE  pc'[w] = label /\ level_id'[w] = l /\ IsEntry(w)' = IsEntry(w)
  BY <1>h DEF TypeInv, TypeOK, GotoWith, IsEntry
<1>a. ASSUME AfterLeave(w), UNCHANGED <<connected_clients, levels>>, Nowhere(c),
             IF IsEntry(w) THEN Known(c) ELSE LevelOf(c) = NoLevel
      PROVE  MovesOn(w) \/ IsDone(w, c)
  <2>1. /\ Nowhere(c)' /\ LevelOf(c)' = LevelOf(c) /\ (Known(c)' <=> Known(c))
    BY <1>a, UnchangedTables, SameFacts
  <2>2. CASE IsEntry(w) /\ GotoWith(w, "announce_join", LevelKey(packet[w].level))
    <3>1. JobFacts(w, c)'
      BY <1>a, <1>h, <2>1, <2>2 DEF JobFacts, Labels
    <3> QED
      BY <1>1, <2>2, <3>1, GoesOn DEF Labels
  <2>3. CASE ~IsEntry(w) /\ Return(w)
    <3>1. Agrees(c)'
      BY <1>a, <1>f, <2>1, <2>3 DEF Agrees, Nowhere
    <3> QED
      BY <2>3, <3>1, Returns
  <2> QED
    BY <1>a, <2>2, <2>3 DEF AfterLeave, IsEntry
<1>4. CASE Verify(w)
  <2>1. \A d : Same(d)
    BY <1>4, UnchangedTables DEF Verify, tables
  <2>2. Agrees(c) /\ Agrees(c)'
    BY <1>4, <1>f, <2>1, SameFacts DEF Verify, JobFacts
  <2>3. CASE Goto(w, Section[packet[w].kind])
    <3>1. /\ Section[packet[w].kind] \in
               {"keepalive", "remove_client", "entry", "exit", "data"}
          /\ IsEntry(w) => Section[packet[w].kind] = "entry"
      BY <1>4, SectionOfKind DEF Verify, TypeInv, LocalsOK, IsEntry, Section
    <3>2. PICK label \in {"keepalive", "remove_client", "entry", "exit", "data"} :
            Goto(w, label) /\ (IsEntry(w) => label = "entry")
      BY <2>3, <3>1
    <3>3. JobFacts(w, c)'
      BY <1>g, <2>2, <3>2 DEF JobFacts, Labels
    <3> QED
      BY <1>1, <2>1, <3>2, <3>3, GoesOn DEF Labels
  <2>4. CASE Return(w)
    BY <2>1, <2>2, <2>4, Returns
  <2> QED
    BY <1>4, <2>3, <2>4 DEF Verify
<1>5. CASE RefuseClient(w)
  <2>1. \A d : Same(d)
    BY <1>5, UnchangedTables DEF RefuseClient, tables
  <2>2. Agrees(c)'
    BY <1>5, <1>f, <2>1, SameFacts DEF RefuseClient, JobFacts
  <2> QED
    BY <1>5, <2>1, <2>2, Returns DEF RefuseClient
<1>6. CASE AddClient(w)
  <2>1. /\ \A d \in Clients \ {c} : Same(d)
        /\ LevelOf(c) = NoLevel /\ LevelOf(c)' = NoLevel
        /\ \A k : Players(k)' = Players(k)
    BY <1>6, ClientInserted DEF AddClient
  <2>2. Agrees(c)'
    BY <1>6, <1>f, <2>1 DEF AddClient, JobFacts, Agrees
  <2>3. ASSUME NEW label \in {"sign_in", "reject"}, Goto(w, label)
        PROVE  MovesOn(w)
    <3>1. JobFacts(w, c)'
      BY <1>g, <2>1, <2>2, <2>3 DEF JobFacts, Labels
    <3> QED
      BY <1>1, <2>3, <3>1, GoesOn DEF Labels
  <2> QED
    BY <1>6, <2>1, <2>2, <2>3, Returns DEF AddClient
<1>7. CASE SignIn(w) \/ Keepalive(w)
  <2>1. \A d : Same(d)
    BY <1>7, OtherFields DEF SignIn, Keepalive, TypeOK, TypeInv, ClientData
  <2>2. Agrees(c)'
    BY <1>7, <1>f, <2>1, SameFacts DEF SignIn, Keepalive, JobFacts
  <2> QED
    BY <1>7, <2>1, <2>2, Returns DEF SignIn, Keepalive
<1>8. CASE Reject(w)
  <2>1. /\ \A d \in Clients \ {c} : Same(d)
        /\ LevelOf(c)' = NoLevel
        /\ \A k : Players(k)' = Players(k)
    BY <1>8, ClientRemoved DEF Reject, Serially
  <2>2. Agrees(c)'
    BY <1>8, <1>f, <2>1 DEF Reject, JobFacts, Agrees
  <2> QED
    BY <1>8, <2>1, <2>2, Returns DEF Reject
<1>9. CASE RemoveClient(w)
  <2>1. /\ \A d \in Clients \ {c} : Same(d)
        /\ LevelOf(c)' = NoLevel
        /\ \A k : Players(k)' = Players(k)
    BY <1>9, ClientRemoved DEF RemoveClient
  <2>2. Agrees(c) /\ ~IsEntry(w)
    BY <1>9, <1>f DEF RemoveClient, JobFacts
  <2>3. CASE LevelOf(c) # NoLevel /\ GotoWith(w, "leave", LevelOf(c))
    <3>1. JobFacts(w, c)'
      BY <1>h, <2>1, <2>2, <2>3 DEF JobFacts, Labels, Agrees, OnlyOn
    <3> QED
      BY <1>1, <2>1, <2>3, <3>1, GoesOn DEF Labels
  <2>4. CASE LevelOf(c) = NoLevel /\ Return(w)
    <3>1. Agrees(c)'
      BY <2>1, <2>2, <2>4 DEF Agrees
    <3> QED
      BY <2>1, <2>4, <3>1, Returns
  <2> QED
    BY <1>9, <2>3, <2>4 DEF RemoveClient
<1>10. CASE LeaveLevel(w)
  <2>1. /\ OnlyOn(c, level_id[w])
        /\ IF IsEntry(w) THEN Known(c) ELSE LevelOf(c) = NoLevel
        /\ level_id[w] \in LevelIds \cup {NoLevel}
    BY <1>10, <1>f DEF LeaveLevel, JobFacts, TypeOK
  <2>2. CASE level_id[w] \in DOMAIN levels
    <3> PICK l \in DOMAIN levels : l = level_id[w]
      BY <2>2
    <3>1. /\ levels' = [levels EXCEPT ![l] = @ \ {c}]
          /\ connected_clients' = connected_clients
          /\ Goto(w, "reap")
      BY <1>10, <2>2 DEF LeaveLevel
    <3>2. /\ \A d \in Clients \ {c} : Same(d)
          /\ LevelOf(c)' = LevelOf(c) /\ (Known(c)' <=> Known(c))
          /\ c \notin Players(l)'
          /\ \A k \in LevelIds \ {l} : Players(k)' = Players(k)
      BY <3>1, PlayerLeaves
    <3>3. JobFacts(w, c)'
      BY <1>g, <2>1, <3>1, <3>2 DEF JobFacts, Labels, OnlyOn, Nowhere
    <3> QED
      BY <1>1, <3>1, <3>2, <3>3, GoesOn DEF Labels
  <2>3. CASE level_id[w] \notin DOMAIN levels
    <3>1. UNCHANGED <<connected_clients, levels>> /\ AfterLeave(w)
      BY <1>10, <2>3 DEF LeaveLevel
    <3>2. Nowhere(c)
      BY <2>1, <2>3, <1>f DEF OnlyOn, Nowhere, Players
    <3> QED
      BY <1>a, <2>1, <3>1, <3>2, UnchangedTables
  <2> QED
    BY <2>2, <2>3
<1>11. CASE SpawnReaper(w)
  <2>1. /\ Nowhere(c)
        /\ IF IsEntry(w) THEN Known(c) ELSE LevelOf(c) = NoLevel
    BY <1>11, <1>f DEF SpawnReaper, JobFacts
  <2>2. UNCHANGED <<connected_clients, levels>> /\ AfterLeave(w)
    BY <1>11 DEF SpawnReaper
  <2> QED
    BY <1>a, <2>1, <2>2, UnchangedTables
<1>12. CASE EnterLevel(w)
  <2>1. \A d : Same(d)
    BY <1>12, UnchangedTables DEF EnterLevel, tables
  <2>2. /\ Agrees(c) /\ Agrees(c)' /\ IsEntry(w)
        /\ \A l : OnlyOn(c, l)' <=> OnlyOn(c, l)
        /\ Nowhere(c)' <=> Nowhere(c)
        /\ LevelOf(c)' = LevelOf(c) /\ (Known(c)' <=> Known(c))
    BY <1>12, <1>f, <1>1, <2>1, SameFacts
      DEF EnterLevel, JobFacts, TypeInv, LocalsOK, IsEntry, Entries
  <2>3. CASE Return(w)
    BY <2>1, <2>2, <2>3, Returns
  <2>4. CASE LevelOf(c) # NoLevel /\ GotoWith(w, "leave", LevelOf(c))
    <3>1. JobFacts(w, c)'
      BY <1>h, <2>2, <2>4 DEF JobFacts, Labels, Agrees, OnlyOn, LevelOf
    <3> QED
      BY <1>1, <2>1, <2>4, <3>1, GoesOn DEF Labels
  <2>5. CASE /\ Known(c) /\ LevelOf(c) = NoLevel
             /\ GotoWith(w, "announce_join", LevelKey(packet[w].level))
    <3>1. JobFacts(w, c)'
      BY <1>f, <1>h, <2>2, <2>5 DEF JobFacts, Labels, Agrees, Nowhere
    <3> QED
      BY <1>1, <2>1, <2>5, <3>1, GoesOn DEF Labels
  <2> QED
    BY <1>12, <2>3, <2>4, <2>5 DEF EnterLevel
<1>13. CASE AnnounceJoin(w) \/ AnnounceExit(w)
  <2>1. \A d : Same(d)
    BY <1>13, UnchangedTables DEF AnnounceJoin, AnnounceExit, Announce, tables
  <2>2. PICK label \in {"join", "leave"} : /\ Goto(w, label)
          /\ pc[w] = IF label = "join" THEN "announce_join" ELSE "announce_exit"
    BY <1>13 DEF AnnounceJoin, AnnounceExit, Announce, Serially
  <2>3. /\ \A l : OnlyOn(c, l)' <=> OnlyOn(c, l)
        /\ Nowhere(c)' <=> Nowhere(c)
        /\ LevelOf(c)' = LevelOf(c) /\ (Known(c)' <=> Known(c))
    BY <2>1, SameFacts
  <2>4. JobFacts(w, c)'
    BY <1>f, <1>g, <2>2, <2>3 DEF JobFacts, Labels
  <2> QED
    BY <1>1, <2>1, <2>2, <2>4, GoesOn DEF Labels
<1>14. CASE JoinLevel(w)
  <2> PICK l \in LevelIds : l = level_id[w]
    BY <1>14, <1>f DEF JoinLevel, TypeInv, LocalsOK
  <2>1. /\ \A d \in Clients \ {c} : Same(d)
        /\ LevelOf(c)' = LevelOf(c) /\ (Known(c)' <=> Known(c))
        /\ c \in Players(l)'
        /\ \A k \in LevelIds \ {l} : Players(k)' = Players(k)
    BY <1>14, PlayerJoins DEF JoinLevel
  <2>2. JobFacts(w, c)'
    BY <1>14, <1>f, <1>g, <2>1 DEF JoinLevel, JobFacts, Labels, Nowhere, OnlyOn
  <2> QED
    BY <1>1, <1>14, <2>1, <2>2, GoesOn DEF JoinLevel, Labels
<1>15. CASE RecordLevel(w)
  <2> PICK l \in LevelIds : l = level_id[w]
    BY <1>15, <1>f DEF RecordLevel, TypeInv, LocalsOK
  <2>1. /\ \A d \in Clients \ {c} : Same(d)
        /\ Known(c) => LevelOf(c)' = l
        /\ \A k : Players(k)' = Players(k)
    BY <1>15, LevelRecorded DEF RecordLevel
  <2>2. Agrees(c)'
    BY <1>15, <1>f, <2>1 DEF RecordLevel, JobFacts, Agrees, OnlyOn
  <2> QED
    BY <1>15, <2>1, <2>2, Returns DEF RecordLevel
<1>16. CASE ExitLevel(w)
  <2>1. /\ \A d \in Clients \ {c} : Same(d)
        /\ Known(c)' <=> Known(c)
        /\ Known(c) => LevelOf(c)' = NoLevel
        /\ \A k : Players(k)' = Players(k)
    BY <1>16, LevelRecorded DEF ExitLevel
  <2>2. Agrees(c) /\ ~IsEntry(w)
    BY <1>16, <1>f DEF ExitLevel, JobFacts
  <2>3. CASE ~Known(c) /\ Return(w)
    <3>1. Agrees(c)'
      BY <2>1, <2>2, <2>3 DEF Agrees, LevelOf
    <3> QED
      BY <2>1, <2>3, <3>1, Returns
  <2>4. CASE Known(c) /\ GotoWith(w, "announce_exit", LevelOf(c))
    <3>1. JobFacts(w, c)'
      BY <1>h, <2>1, <2>2, <2>4 DEF JobFacts, Labels, Agrees, OnlyOn
    <3> QED
      BY <1>1, <2>1, <2>4, <3>1, GoesOn DEF Labels
  <2> QED
    BY <1>16, <2>3, <2>4 DEF ExitLevel
<1>17. CASE ReadLevel(w)
  <2>1. \A d : Same(d)
    BY <1>17, UnchangedTables DEF ReadLevel, tables
  <2>2. Agrees(c)' /\ LevelOf(c)' = LevelOf(c)
    BY <1>17, <1>f, <2>1, SameFacts DEF ReadLevel, JobFacts
  <2>3. CASE GotoWith(w, "store", LevelOf(c))
    <3>1. JobFacts(w, c)'
      BY <1>h, <2>2, <2>3 DEF JobFacts, Labels
    <3> QED
      BY <1>1, <2>1, <2>3, <3>1, GoesOn DEF Labels
  <2> QED
    BY <1>17, <2>1, <2>2, <2>3, Returns DEF ReadLevel
<1>18. CASE StoreData(w)
  <2>1. Agrees(c) /\ level_id[w] = LevelOf(c) /\ level_id[w] \in LevelIds \cup {NoLevel}
    BY <1>18, <1>f DEF StoreData, JobFacts, TypeOK
  <2>2. \A d : Same(d)
    BY <1>18, <1>f, <2>1
      DEF StoreData, Agrees, Same, LevelOf, Known, Players, TypeOK
  <2> QED
    BY <1>18, <2>1, <2>2, SameFacts, Returns DEF StoreData
<1> QED
  BY <1>4, <1>5, <1>6, <1>7, <1>8, <1>9, <1>10, <1>11, <1>12, <1>13, <1>14,
    <1>15, <1>16, <1>17, <1>18 DEF Step
-----------------------------------------------------------------------------
(* The steps of everyone else.                                             *)

(* A worker takes a client nobody is working for.                          *)
LEMMA JobTaken ==
  ASSUME SerialInv, NEW w \in Workers, ~Busy(w), NEW p \in Packets \cup Kicks,
         ~InFlight(p.client), tick_pc' = tick_pc,
         UNCHANGED <<connected_clients, levels, level_id>>,
         NEW label \in {"add_client", "verify", "remove_client"},
         label = "remove_client" => p.kind # "UserLevelEntry",
         pc' = [pc EXCEPT ![w] = label], packet' = [packet EXCEPT ![w] = p],
         pc \in [Workers -> Labels], packet \in [Workers -> Packets \cup Kicks \cup {NoPacket}]
  PROVE  SerialInv'
<1>1. \A d : Same(d)
  BY UnchangedTables
<1>2. p # NoPacket /\ p.client \in Clients
  BY NoPacketDistinct, PacketFields
<1>3. /\ pc'[w] = label /\ packet'[w] = p
      /\ \A v \in Workers \ {w} : /\ pc'[v] = pc[v]
                                   /\ packet'[v] = packet[v]
                                   /\ level_id'[v] = level_id[v]
  OBVIOUS
<1>4. ASSUME NEW v \in Workers \ {w}, Busy(v)
      PROVE  JobInv(v)'
  <2> PICK c : c = Client(v)
    OBVIOUS
  <2> QED
    BY <1>1, <1>3, <1>4, OtherJobs DEF SerialInv
<1>5. Agrees(p.client)'
  BY <1>1, <1>2, SameFacts DEF SerialInv
<1>6. JobInv(w)'
  BY <1>3, <1>5 DEF JobInv, JobFacts, Client, IsEntry
<1>7. ASSUME NEW d \in Clients, ~InFlight(d)'
      PROVE  Agrees(d)'
  <2>1. ~InFlight(d)
    BY <1>3, <1>7 DEF InFlight, Client, Busy
  <2> QED
    BY <1>1, <2>1, SameFacts DEF SerialInv
<1>8. OneJobPerClient'
  BY <1>2, <1>3 DEF SerialInv, OneJobPerClient, Busy, Client, InFlight
<1> QED
  BY <1>3, <1>4, <1>6, <1>7, <1>8 DEF SerialInv, Busy

(* Steps of the environment and of the reapers move nobody.                *)
LEMMA NobodyMoves ==
  ASSUME TypeInv, SerialInv, \A d : Same(d), tick_pc' = tick_pc,
         UNCHANGED <<packet, level_id>>,
         pc' = pc \/ (pc[Janitor] \in {"idle", "kick"} /\ pc' = [pc EXCEPT ![Janitor] = "kick"])
  PROVE  SerialInv'
<1>1. \A v \in Workers : Busy(v) => pc'[v] = pc[v]
  BY DEF SerialInv, OneJobPerClient, TypeInv, TypeOK, Workers
<1>2. \A v \in Workers : pc'[v] \in {"idle", "kick"} <=> pc[v] \in {"idle", "kick"}
  BY DEF TypeInv, TypeOK, Workers
<1>3. ASSUME NEW v \in Workers, Busy(v)
      PROVE  JobInv(v)'
  <2> PICK c : c = Client(v)
    OBVIOUS
  <2> QED
    BY <1>1, <1>3, OtherJobs DEF SerialInv
<1>4. \A d \in Clients : ~InFlight(d)' => Agrees(d)'
  BY SameFacts DEF SerialInv, InFlight, Client
<1>5. OneJobPerClient'
  BY <1>2 DEF SerialInv, OneJobPerClient, Busy, Client
<1> QED
  BY <1>3, <1>4, <1>5 DEF SerialInv, Busy

LEMMA InitSerial ==
  ASSUME Init
  PROVE  SerialInv
<1>1. \A w \in Workers : ~Busy(w) /\ pc[w] = "idle"
  BY DEF Init, Busy
<1>2. \A d : Agrees(d)
  BY SentinelIsNoLevel DEF Init, Agrees, Players, LevelOf, Known
<1> QED
  BY <1>1, <1>2 DEF Init, SerialInv, OneJobPerClient

LEMMA NextKeepsSerial ==
  ASSUME Serially, TypeInv, SerialInv, [Next]_vars
  PROVE  SerialInv'
<1>1. CASE \E w \in Workers : Step(w)
  BY <1>1, StepKeepsSerial
<1>2. ASSUME NEW t \in Tasks, NEW p \in Packets, Receive(t, p)
      PROVE  SerialInv'
  <2>1. t \in Workers /\ ~Busy(t) /\ ~InFlight(p.client)
    BY <1>2 DEF Receive, Serially, SerialInv, OneJobPerClient, Workers
  <2>2. PICK label \in {"add_client", "verify"} : pc' = [pc EXCEPT ![t] = label]
    BY <1>2 DEF Receive
  <2>3. /\ tick_pc' = tick_pc /\ UNCHANGED <<connected_clients, levels, level_id>>
        /\ packet' = [packet EXCEPT ![t] = p]
        /\ pc \in [Workers -> Labels]
        /\ packet \in [Workers -> Packets \cup Kicks \cup {NoPacket}]
    BY <1>2 DEF Receive, tables, tick, TypeInv, TypeOK
  <2> QED
    BY <2>1, <2>2, <2>3, JobTaken
<1>3. ASSUME NEW c \in Clients, GoSilent(c)
      PROVE  SerialInv'
  <2>1. \A d : Same(d)
    BY <1>3, OtherFields DEF GoSilent, TypeInv, TypeOK, ClientData
  <2> QED
    BY <1>3, <2>1, NobodyMoves DEF GoSilent, locals, tick
<1>4. CASE CollectSilent
  <2>1. \A d : Same(d)
    BY <1>4, UnchangedTables DEF CollectSilent, tables
  <2> QED
    BY <1>4, <2>1, NobodyMoves DEF CollectSilent, tick
<1>5. ASSUME NEW c \in Clients, KickNext(c)
      PROVE  SerialInv'
  <2> DEFINE p == [kind |-> "Kick", client |-> c]
  <2>1. p \in Packets \cup Kicks /\ p.kind # "UserLevelEntry" /\ ~InFlight(p.client)
    BY <1>5 DEF Kicks, KickNext, Serially
  <2>2. Janitor \in Workers /\ ~Busy(Janitor)
    BY <1>5 DEF KickNext, Workers, SerialInv, OneJobPerClient
  <2>3. /\ tick_pc' = tick_pc /\ UNCHANGED <<connected_clients, levels, level_id>>
        /\ pc' = [pc EXCEPT ![Janitor] = "remove_client"]
        /\ packet' = [packet EXCEPT ![Janitor] = p]
        /\ pc \in [Workers -> Labels]
        /\ packet \in [Workers -> Packets \cup Kicks \cup {NoPacket}]
    BY <1>5 DEF KickNext, tables, tick, TypeInv, TypeOK
  <2> HIDE DEF p
  <2> QED
    BY <2>1, <2>2, <2>3, JobTaken
<1>6. CASE Reap
  BY <1>6, ReapingMovesNobody, NobodyMoves DEF Reap, locals, tick
<1>7. ~Tick
  BY DEF SerialInv, Serially, Tick, CollectPlayers, LockLevels, SendLevel,
    ResetPlayers, UnlockLevels
<1>8. CASE UNCHANGED vars
  <2>1. \A d : Same(d)
    BY <1>8, UnchangedTables DEF vars
  <2> QED
    BY <1>8, <2>1, NobodyMoves DEF vars
<1> QED
  BY <1>1, <1>2, <1>3, <1>4, <1>5, <1>6, <1>7, <1>8
    DEF Next, Environment, JanitorStep

(* While nothing is being done for a client, it is among the players of    *)
(* exactly the level its level_id names.  So the only sources of a         *)
(* disagreement are jobs on one client that overlap, a send_to that fails, *)
(* and the tick task acting on a stale list.                               *)
THEOREM TablesAgree ==
  ASSUME Serially
  PROVE  Spec => []MembershipAgrees
<1>1. Init => SerialInv
  BY InitSerial
<1>2. TypeInv /\ SerialInv /\ [Next]_vars => SerialInv'
  BY NextKeepsSerial
<1>3. SerialInv => MembershipAgrees
  BY DEF SerialInv, MembershipAgrees, Agrees
<1> QED
  BY <1>1, <1>2, <1>3, TypeInvariant, PTL DEF Spec

(* Nobody is left on a level while the client table has it on none: the    *)
(* ghosts of NoGhostPlayers need overlapping jobs, a failed send or a tick. *)
THEOREM NoGhosts ==
  ASSUME Serially
  PROVE  Spec => []NoGhostPlayers
<1>1. MembershipAgrees => NoGhostPlayers
  BY SentinelIsNoLevel DEF MembershipAgrees, NoGhostPlayers
<1> QED
  BY <1>1, TablesAgree, PTL

(* remove_client_from_level ends the job at once only if the level is gone. *)
LEMMA LeaveEnds ==
  ASSUME TypeInv, [Next]_vars, NEW w \in Workers, pc[w] = "leave",
         packet'[w] # packet[w]
  PROVE  level_id[w] \notin DOMAIN levels
<1> USE DEF TypeInv, TypeOK
<1>1. ASSUME NEW v \in Workers, Step(v)
      PROVE  v = w /\ LeaveLevel(w)
  <2>1. v = w
    BY <1>1, OthersKeepLocals
       DEF Step, Verify, RefuseClient, AddClient, SignIn, Reject, Keepalive,
         RemoveClient, LeaveLevel, SpawnReaper, AfterLeave, EnterLevel,
         AnnounceJoin, Announce, JoinLevel, RecordLevel, ExitLevel,
         AnnounceExit, ReadLevel, StoreData
  <2> QED
    BY <1>1, <2>1
       DEF Step, Verify, RefuseClient, AddClient, SignIn, Reject, Keepalive,
         RemoveClient, SpawnReaper, EnterLevel, AnnounceJoin, Announce,
         JoinLevel, RecordLevel, ExitLevel, AnnounceExit, ReadLevel, StoreData
<1>2. ASSUME NEW t \in Tasks, NEW p \in Packets, Receive(t, p)
      PROVE  FALSE
  BY <1>2 DEF Receive
<1>3. ASSUME NEW c \in Clients, KickNext(c)
      PROVE  FALSE
  BY <1>3 DEF KickNext
<1>4. ~\E c \in Clients : GoSilent(c)
  BY DEF GoSilent, locals
<1>5. ~CollectSilent /\ ~Reap /\ ~Tick /\ ~UNCHANGED vars
  BY DEF CollectSilent, Reap, Tick, CollectPlayers, LockLevels, SendLevel,
    ResetPlayers, UnlockLevels, locals, vars
<1>6. LeaveLevel(w)
  BY <1>1, <1>2, <1>3, <1>4, <1>5 DEF Next, Environment, JanitorStep
<1> QED
  BY <1>6 DEF LeaveLevel, Goto

(* The last section of an exit comes after the player has left.            *)
LEMMA ExitEnds ==
  ASSUME TypeInv, SerialInv, [Next]_vars, NEW w \in Workers, EndsExit(w)
  PROVE  \A l \in LevelIds : Client(w) \notin Players(l)
<1> PICK c : c = Client(w)
  OBVIOUS
<1>1. JobFacts(w, c) /\ ~IsEntry(w) /\ packet'[w] # packet[w]
  BY DEF EndsExit, Busy, IsEntry, SerialInv, JobInv
<1>2. CASE pc[w] = "reap"
  BY <1>1, <1>2 DEF JobFacts, Nowhere
<1>3. CASE pc[w] = "leave"
  <2>1. OnlyOn(c, level_id[w])
    BY <1>1, <1>3 DEF JobFacts
  <2>2. Players(level_id[w]) = {}
    BY <1>1, <1>3, LeaveEnds DEF Players
  <2> QED
    BY <2>1, <2>2 DEF OnlyOn
<1> QED
  BY <1>2, <1>3 DEF EndsExit

(* UserLevelExit does what protocol.md says of it: at its end the player   *)
(* is on no level at all.                                                  *)
THEOREM ExitLeavesLevel ==
  ASSUME Serially
  PROVE  Spec => ExitRemovesPlayer
<1>1. Init => SerialInv
  BY InitSerial
<1>2. TypeInv /\ SerialInv /\ [Next]_vars => SerialInv'
  BY NextKeepsSerial
<1>3. TypeInv /\ SerialInv /\ [Next]_vars
        => [\A w \in Workers :
             EndsExit(w) => \A l \in LevelIds : Client(w) \notin Players(l)]_vars
  BY ExitEnds
<1> QED
  BY <1>1, <1>2, <1>3, TypeInvariant, PTL DEF Spec, ExitRemovesPlayer

-----------------------------------------------------------------------------
(* The place of every player, as PlayerPlaces sees it.                     *)
Place == [c \in Clients |-> PlaceOf(c)]

-----------------------------------------------------------------------------
(* What the tables say of a client determines its place.                   *)
LEMMA LevelsOfClient ==
  ASSUME TypeOK, NEW c
  PROVE  LevelsOf(c) = {l \in LevelIds : c \in Players(l)}
BY DEF TypeOK, LevelsOf, Players

LEMMA SamePlace ==
  ASSUME TypeOK, TypeOK', NEW c, Known(c)' <=> Known(c),
         \A l \in LevelIds : c \in Players(l)' <=> c \in Players(l)
  PROVE  PlaceOf(c)' = PlaceOf(c)
<1>1. LevelsOf(c)' = LevelsOf(c)
  BY LevelsOfClient DEF TypeOK, LevelsOf, Players
<1> QED
  BY <1>1 DEF PlaceOf

LEMMA PlacesKnown ==
  ASSUME TypeOK, NEW c
  PROVE  /\ PlaceOf(c) = {} <=> ~Known(c)
         /\ Known(c) /\ Nowhere(c) => PlaceOf(c) = {NoLevel}
         /\ \A l \in LevelIds : Known(c) /\ OnlyOn(c, l) => PlaceOf(c) = {l}
<1>1. LevelsOf(c) = {l \in LevelIds : c \in Players(l)}
  BY LevelsOfClient
<1>2. Nowhere(c) => LevelsOf(c) = {}
  BY <1>1 DEF Nowhere
<1>3. \A l \in LevelIds : OnlyOn(c, l) => LevelsOf(c) = {l}
  BY <1>1 DEF OnlyOn
<1> QED
  BY <1>2, <1>3 DEF PlaceOf

LEMMA OneMoves ==
  ASSUME TypeOK, TypeOK', NEW c \in Clients, NEW p, PlaceOf(c)' = p,
         \A d \in Clients \ {c} : Same(d)
  PROVE  Place' = [Place EXCEPT ![c] = p]
<1>1. \A d \in Clients \ {c} : PlaceOf(d)' = PlaceOf(d)
  BY SamePlace DEF Same
<1> QED
  BY <1>1 DEF Place

LEMMA NobodysPlace ==
  ASSUME TypeOK, TypeOK', \A d \in Clients : Same(d)
  PROVE  UNCHANGED Place
<1>1. \A d \in Clients : PlaceOf(d)' = PlaceOf(d)
  BY SamePlace DEF Same
<1> QED
  BY <1>1 DEF Place

-----------------------------------------------------------------------------
(* Each section of a job is a move of its client, or none.                 *)
Moves == Places!Next \/ UNCHANGED Place

(* PlayerPlaces takes Cardinality from its own copy of FiniteSets.         *)
LEMMA SameCardinality == \A S : Places!Cardinality(S) = Cardinality(S)
BY DEF Places!Cardinality, Cardinality

LEMMA SignsIn ==
  ASSUME TypeInv, TypeInv', NEW w \in Workers, AddClient(w), JobInv(w),
         Client(w) \in Clients
  PROVE  Moves
<1> PICK c \in Clients : c = Client(w)
  OBVIOUS
<1>1. /\ \A d \in Clients \ {c} : Same(d)
      /\ LevelOf(c) = NoLevel
      /\ \A k : Players(k)' = Players(k)
  BY ClientInserted DEF AddClient
<1>2. ~Known(c) /\ Known(c)' /\ ~Full
  BY DEF AddClient, Known, With
<1>3. Agrees(c)
  BY DEF AddClient, JobInv, JobFacts
<1>4. Nowhere(c)
  BY <1>1, <1>3, SentinelIsNoLevel DEF Agrees, Nowhere
<1>5. Nowhere(c)'
  BY <1>1, <1>4 DEF Nowhere
<1>6. PlaceOf(c) = {} /\ PlaceOf(c)' = {NoLevel}
  BY <1>2, <1>5, PlacesKnown DEF TypeInv, PlaceOf, Nowhere, LevelsOf, Players, TypeOK
<1>7. Place' = [Place EXCEPT ![c] = {NoLevel}]
  BY <1>1, <1>6, OneMoves DEF TypeInv
<1>8. Places!SignedIn = DOMAIN connected_clients
  BY PlacesKnown DEF TypeInv, TypeOK, Places!SignedIn, Known
<1>9. MaxClients # 0 => Cardinality(Places!SignedIn) < MaxClients
  BY <1>2, <1>8, KnownFinite, LimitIsI32 DEF Full, TypeInv
<1>10. Places!SignIn(c)
  BY <1>6, <1>7, <1>9, SameCardinality DEF Places!SignIn, Places!Move, Place
<1> QED
  BY <1>10 DEF Moves, Places!Next

LEMMA SignsOut ==
  ASSUME TypeInv, TypeInv', NEW c \in Clients, levels' = levels,
         connected_clients' = Without(connected_clients, c)
  PROVE  Moves
<1>1. \A d \in Clients \ {c} : Same(d)
  BY ClientRemoved
<1>2. ~Known(c)'
  BY DEF Known, Without, Restrict
<1>3. PlaceOf(c)' = {}
  BY <1>2 DEF PlaceOf
<1>4. Place' = [Place EXCEPT ![c] = {}]
  BY <1>1, <1>3, OneMoves DEF TypeInv
<1>5. CASE Known(c)
  <2>1. PlaceOf(c) # {}
    BY <1>5, PlacesKnown DEF TypeInv
  <2>2. Places!SignOut(c)
    BY <1>4, <2>1 DEF Places!SignOut, Places!Move, Place
  <2> QED
    BY <2>2 DEF Moves, Places!Next
<1>6. CASE ~Known(c)
  <2>1. PlaceOf(c) = {}
    BY <1>6 DEF PlaceOf
  <2>2. Place' = Place
    BY <1>4, <2>1 DEF Place
  <2> QED
    BY <2>2 DEF Moves
<1> QED
  BY <1>5, <1>6

LEMMA Leaves ==
  ASSUME TypeInv, TypeInv', NEW c \in Clients, NEW l \in DOMAIN levels,
         OnlyOn(c, l), levels' = [levels EXCEPT ![l] = @ \ {c}],
         connected_clients' = connected_clients
  PROVE  Moves
<1>1. /\ \A d \in Clients \ {c} : Same(d)
      /\ Known(c)' <=> Known(c)
      /\ c \notin Players(l)'
      /\ \A k \in LevelIds \ {l} : Players(k)' = Players(k)
  BY PlayerLeaves
<1>2. Nowhere(c)' /\ l \in LevelIds
  BY <1>1 DEF OnlyOn, Nowhere, TypeInv, TypeOK
<1>3. CASE Known(c)
  <2>1. PlaceOf(c) = {l}
    BY <1>2, <1>3, PlacesKnown DEF TypeInv
  <2>2. PlaceOf(c)' = {NoLevel}
    BY <1>1, <1>2, <1>3 DEF PlaceOf, Nowhere, LevelsOf, Players, TypeInv, TypeOK
  <2>3. Place' = [Place EXCEPT ![c] = {NoLevel}]
    BY <1>1, <2>2, OneMoves DEF TypeInv
  <2>4. Places!Leave(c)
    BY <1>2, <2>1, <2>3 DEF Places!Leave, Places!Move, Place
  <2> QED
    BY <2>4 DEF Moves, Places!Next
<1>4. CASE ~Known(c)
  <2>1. PlaceOf(c) = {} /\ PlaceOf(c)' = {}
    BY <1>1, <1>4 DEF PlaceOf
  <2>2. Place' = [Place EXCEPT ![c] = {}]
    BY <1>1, <2>1, OneMoves DEF TypeInv
  <2>3. Place' = Place
    BY <2>1, <2>2 DEF Place
  <2> QED
    BY <2>3 DEF Moves
<1> QED
  BY <1>3, <1>4

LEMMA Enters ==
  ASSUME TypeInv, TypeInv', NEW c \in Clients, NEW l \in LevelIds,
         Known(c), Nowhere(c),
         levels' = With(levels, l, Players(l) \cup {c}),
         connected_clients' = connected_clients
  PROVE  Moves
<1>1. /\ \A d \in Clients \ {c} : Same(d)
      /\ Known(c)'
      /\ c \in Players(l)'
      /\ \A k \in LevelIds \ {l} : Players(k)' = Players(k)
  BY PlayerJoins
<1>2. OnlyOn(c, l)'
  BY <1>1 DEF OnlyOn, Nowhere
<1>3. PlaceOf(c) = {NoLevel}
  BY PlacesKnown DEF TypeInv
<1>4. PlaceOf(c)' = {l}
  <2>1. LevelsOf(c)' = {l}
    BY ZenonT(40), <1>2 DEF OnlyOn, LevelsOf, Players, TypeInv, TypeOK
  <2> QED
    BY <1>1, <2>1 DEF PlaceOf
<1>5. Place' = [Place EXCEPT ![c] = {l}]
  BY <1>1, <1>4, OneMoves DEF TypeInv
<1>6. Places!Enter(c, {l})
  BY <1>3, <1>5 DEF Places!Enter, Places!Move, Place
<1> QED
  BY <1>6 DEF Moves, Places!Next

LEMMA StepMoves ==
  ASSUME Serially, TypeInv, TypeInv', SerialInv, NEW w \in Workers, Step(w)
  PROVE  Moves
<1> PICK c : c = Client(w)
  OBVIOUS
<1>1. Busy(w) /\ JobInv(w) /\ c \in Clients
  <2>1. pc[w] \notin {"idle", "kick"}
    BY DEF Step, Verify, RefuseClient, AddClient, SignIn, Reject, Keepalive,
      RemoveClient, LeaveLevel, SpawnReaper, EnterLevel, AnnounceJoin, Announce,
      JoinLevel, RecordLevel, ExitLevel, AnnounceExit, ReadLevel, StoreData
  <2> QED
    BY <2>1, BusyClient DEF SerialInv, OneJobPerClient
<1>f. JobFacts(w, c) /\ TypeOK /\ TypeOK'
  BY <1>1 DEF JobInv, TypeInv
<1>s. ASSUME \A d \in Clients : Same(d) PROVE Moves
  BY <1>f, <1>s, NobodysPlace DEF Moves
<1>2. CASE Verify(w) \/ RefuseClient(w) \/ SpawnReaper(w) \/ EnterLevel(w)
           \/ AnnounceJoin(w) \/ AnnounceExit(w) \/ ReadLevel(w)
  <2>1. UNCHANGED <<connected_clients, levels>>
    BY <1>2 DEF Verify, RefuseClient, SpawnReaper, EnterLevel, AnnounceJoin,
      AnnounceExit, Announce, ReadLevel, tables
  <2> QED
    BY <1>s, <2>1, UnchangedTables
<1>3. CASE AddClient(w)
  BY <1>1, <1>3, SignsIn
<1>4. CASE SignIn(w) \/ Keepalive(w)
  BY <1>4, <1>s, OtherFields DEF SignIn, Keepalive, TypeOK, TypeInv, ClientData
<1>5. CASE Reject(w) \/ RemoveClient(w)
  BY <1>1, <1>5, SignsOut DEF Reject, RemoveClient, Serially
<1>6. CASE LeaveLevel(w)
  <2>1. CASE level_id[w] \in DOMAIN levels
    BY <1>1, <1>6, <1>f, <2>1, Leaves DEF LeaveLevel, JobFacts
  <2>2. CASE level_id[w] \notin DOMAIN levels
    BY <1>6, <1>s, <2>2, UnchangedTables DEF LeaveLevel
  <2> QED
    BY <2>1, <2>2
<1>7. CASE JoinLevel(w)
  <2>1. level_id[w] \in LevelIds /\ Known(c) /\ Nowhere(c)
    BY <1>7, <1>f DEF JoinLevel, TypeInv, LocalsOK, JobFacts
  <2> QED
    BY <1>1, <1>7, <2>1, Enters DEF JoinLevel
<1>8. CASE RecordLevel(w) \/ ExitLevel(w)
  <2>1. PICK l : SetLevel({c}, l) /\ levels' = levels
    BY <1>8 DEF RecordLevel, ExitLevel
  <2>2. \A d \in Clients : /\ Known(d)' <=> Known(d)
                           /\ \A k : Players(k)' = Players(k)
    BY <2>1 DEF SetLevel, Known, Players
  <2>3. \A d \in Clients : PlaceOf(d)' = PlaceOf(d)
    BY <1>f, <2>2, SamePlace
  <2> QED
    BY <2>3 DEF Moves, Place
<1>9. CASE StoreData(w)
  <2>1. Agrees(c) /\ level_id[w] = LevelOf(c)
    BY <1>9, <1>f DEF StoreData, JobFacts
  <2>2. \A d : Same(d)
    BY <1>9, <1>f, <2>1
      DEF StoreData, Agrees, Same, LevelOf, Known, Players, TypeOK
  <2> QED
    BY <1>s, <2>2
<1> QED
  BY <1>2, <1>3, <1>4, <1>5, <1>6, <1>7, <1>8, <1>9 DEF Step

(* The steps of everyone else move nobody.                                 *)
LEMMA NextMoves ==
  ASSUME Serially, TypeInv, TypeInv', SerialInv, [Next]_vars
  PROVE  Moves
<1>s. ASSUME \A d \in Clients : Same(d) PROVE Moves
  BY <1>s, NobodysPlace DEF Moves, TypeInv
<1>1. CASE \E w \in Workers : Step(w)
  BY <1>1, StepMoves
<1>2. CASE \/ \E t \in Tasks, p \in Packets : Receive(t, p)
           \/ JanitorStep \/ UNCHANGED vars
  <2>1. UNCHANGED <<connected_clients, levels>>
    BY <1>2 DEF Receive, JanitorStep, CollectSilent, KickNext, tables, vars
  <2> QED
    BY <1>s, <2>1, UnchangedTables
<1>3. ASSUME NEW c \in Clients, GoSilent(c) PROVE Moves
  BY <1>3, <1>s, OtherFields DEF GoSilent, TypeInv, TypeOK, ClientData
<1>4. CASE Reap
  BY <1>4, <1>s, ReapingMovesNobody
<1>5. ~Tick
  BY DEF SerialInv, Serially, Tick, CollectPlayers, LockLevels, SendLevel,
    ResetPlayers, UnlockLevels
<1> QED
  BY <1>1, <1>2, <1>3, <1>4, <1>5 DEF Next, Environment

(* The game server keeps what PlayerPlaces promises: every section of every *)
(* handler is one player signing in while there is room, entering a level   *)
(* from the lobby, going back to it, leaving the server, or nothing.        *)
THEOREM TablesActAsPlaces ==
  ASSUME Serially
  PROVE  Spec => ImplementsPlaces
<1>1. Init => Places!Init
  <2> SUFFICES ASSUME Init PROVE Places!Init
    OBVIOUS
  <2>1. \A c \in Clients : PlaceOf(c) = {}
    BY DEF Init, PlaceOf, Known
  <2> QED
    BY <2>1 DEF Places!Init
<1>2. Init => SerialInv
  BY InitSerial
<1>3. TypeInv /\ SerialInv /\ [Next]_vars => SerialInv'
  BY NextKeepsSerial
<1>4. TypeInv /\ TypeInv' /\ SerialInv /\ [Next]_vars => [Places!Next]_Place
  BY NextMoves DEF Moves
<1> QED
  BY <1>1, <1>2, <1>3, <1>4, TypeInvariant, PTL
  DEF Spec, ImplementsPlaces, Places!Spec, Place

-----------------------------------------------------------------------------
(* Once a packet is verified, or its client added, the client it works for *)
(* has the packet's key as long as it is in the table.                     *)
HasKey(w) ==
  /\ packet[w] # NoPacket /\ packet[w].kind # "Kick"
  /\ pc[w] \notin {"verify", "add_client"}
  /\ Known(Client(w))
  => connected_clients[Client(w)].key = packet[w].key

KeyInv == \A w \in Workers : HasKey(w)

(* No step gives a client that stays another key.                          *)
KeyKept(d) == Known(d)' => Known(d) /\ connected_clients'[d].key = connected_clients[d].key

LevelKept(d) == Known(d) => Known(d)' /\ connected_clients'[d].level = connected_clients[d].level

(* A step of a worker on a client: the worker goes on, the tables change   *)
(* for that client only, and its key stays unless it is new.               *)
LEMMA StepOnClient ==
  ASSUME TypeInv, NEW w \in Workers, Step(w), NEW c, c = Client(w)
  PROVE  /\ pc[w] \notin {"idle", "kick"} /\ pc'[w] # pc[w]
         /\ packet'[w] \in {packet[w], NoPacket}
         /\ \A v \in Workers \ {w} : pc'[v] = pc[v] /\ packet'[v] = packet[v]
         /\ \A d \in Clients \ {c} : KeyKept(d) /\ LevelKept(d)
         /\ \/ KeyKept(c) /\ pc[w] \notin {"verify", "add_client"}
                         /\ pc'[w] \notin {"verify", "add_client"}
            \/ /\ KeyKept(c) /\ LevelKept(c) /\ packet'[w] = NoPacket
            \/ /\ KeyKept(c) /\ LevelKept(c) /\ Verified(packet[w])
            \/ ~Known(c) /\ connected_clients'[c].key = packet[w].key
<1> USE DEF TypeInv, TypeOK
<1>a. ASSUME NEW label, Goto(w, label)
      PROVE  /\ pc'[w] = label /\ packet' = packet
             /\ \A v \in Workers \ {w} : pc'[v] = pc[v]
  BY <1>a DEF Goto
<1>e. ASSUME NEW label, NEW l, GotoWith(w, label, l)
      PROVE  /\ pc'[w] = label /\ packet' = packet
             /\ \A v \in Workers \ {w} : pc'[v] = pc[v]
  BY <1>e DEF GotoWith
<1>b. ASSUME Return(w)
      PROVE  /\ pc'[w] \in {"idle", "kick"} /\ packet'[w] = NoPacket
             /\ \A v \in Workers \ {w} : pc'[v] = pc[v] /\ packet'[v] = packet[v]
  BY <1>b DEF Return, Rest
<1>c. ASSUME AfterLeave(w), pc[w] \in {"leave", "reap"}
      PROVE  /\ pc'[w] \in {"idle", "kick", "announce_join"} /\ pc'[w] # pc[w]
             /\ packet'[w] \in {packet[w], NoPacket}
             /\ \A v \in Workers \ {w} : pc'[v] = pc[v] /\ packet'[v] = packet[v]
  <2>1. CASE GotoWith(w, "announce_join", LevelKey(packet[w].level))
    BY <1>e, <1>c, <2>1
  <2>2. CASE Return(w)
    BY <1>b, <1>c, <2>2
  <2> QED
    BY <1>c, <2>1, <2>2 DEF AfterLeave
<1>d. UNCHANGED connected_clients => \A d : KeyKept(d) /\ LevelKept(d)
  BY DEF KeyKept, LevelKept, Known
<1>1. CASE Verify(w)
  <2>1. CASE Verified(packet[w]) /\ Goto(w, Section[packet[w].kind])
    <3>1. Section[packet[w].kind] \in
            {"keepalive", "remove_client", "entry", "exit", "data"}
      BY <1>1, SectionOfKind DEF Verify, LocalsOK
    <3> QED
      BY <1>1, <1>a, <1>d, <2>1, <3>1 DEF Verify, tables
  <2>2. CASE Return(w)
    BY <1>1, <1>b, <1>d, <2>2 DEF Verify, tables
  <2> QED
    BY <1>1, <2>1, <2>2 DEF Verify
<1>2. CASE RefuseClient(w)
  BY <1>2, <1>b, <1>d DEF RefuseClient, tables
<1>3. CASE AddClient(w)
  <2>1. /\ \A d \in Clients \ {c} : KeyKept(d) /\ LevelKept(d)
        /\ ~Known(c) /\ connected_clients'[c].key = packet[w].key
    BY <1>3 DEF AddClient, With, NewClient, KeyKept, LevelKept, Known
  <2>2. /\ pc[w] = "add_client" /\ pc'[w] # pc[w]
        /\ packet'[w] \in {packet[w], NoPacket}
        /\ \A v \in Workers \ {w} : pc'[v] = pc[v] /\ packet'[v] = packet[v]
    BY <1>3, <1>a, <1>b DEF AddClient
  <2> QED
    BY <2>1, <2>2
<1>4. CASE SignIn(w) \/ Keepalive(w)
  <2>1. \A d : KeyKept(d) /\ LevelKept(d)
    BY <1>4 DEF SignIn, Keepalive, KeyKept, LevelKept, Known, ClientData
  <2> QED
    BY <1>4, <1>b, <2>1 DEF SignIn, Keepalive
<1>5. ASSUME connected_clients' = Without(connected_clients, c) \/ UNCHANGED connected_clients
      PROVE  /\ \A d : KeyKept(d)
             /\ \A d \in Clients \ {c} : LevelKept(d)
  BY <1>5 DEF Without, Restrict, KeyKept, LevelKept, Known
<1>6. CASE Reject(w)
  BY <1>5, <1>6, <1>b DEF Reject
<1>7. CASE RemoveClient(w)
  <2>1. /\ \A d : KeyKept(d)
        /\ \A d \in Clients \ {c} : LevelKept(d)
    BY <1>5, <1>7 DEF RemoveClient
  <2>2. pc[w] = "remove_client"
    BY <1>7 DEF RemoveClient
  <2>3. CASE GotoWith(w, "leave", LevelOf(c))
    BY <1>e, <2>1, <2>2, <2>3
  <2>4. CASE Return(w)
    BY <1>b, <2>1, <2>2, <2>4
  <2> QED
    BY <1>7, <2>3, <2>4 DEF RemoveClient
<1>8. CASE LeaveLevel(w)
  BY <1>8, <1>a, <1>c, <1>d DEF LeaveLevel
<1>9. CASE SpawnReaper(w)
  BY <1>9, <1>c, <1>d DEF SpawnReaper
<1>10. CASE EnterLevel(w)
  <2>1. \A d : KeyKept(d) /\ LevelKept(d)
    BY <1>10, <1>d DEF EnterLevel, tables
  <2>2. pc[w] = "entry"
    BY <1>10 DEF EnterLevel
  <2>3. CASE Return(w)
    BY <1>b, <2>1, <2>2, <2>3
  <2>4. CASE GotoWith(w, "leave", LevelOf(c))
    BY <1>e, <2>1, <2>2, <2>4
  <2>5. CASE GotoWith(w, "announce_join", LevelKey(packet[w].level))
    BY <1>e, <2>1, <2>2, <2>5
  <2> QED
    BY <1>10, <2>3, <2>4, <2>5 DEF EnterLevel
<1>11. CASE AnnounceJoin(w) \/ AnnounceExit(w)
  BY <1>11, <1>a, <1>b, <1>d DEF AnnounceJoin, AnnounceExit, Announce, tables
<1>12. CASE JoinLevel(w)
  BY <1>12, <1>a, <1>d DEF JoinLevel
<1>13. ASSUME NEW l, SetLevel({c}, l)
       PROVE  /\ \A d : KeyKept(d)
              /\ \A d \in Clients \ {c} : LevelKept(d)
  BY <1>13 DEF SetLevel, KeyKept, LevelKept, Known, ClientData
<1>14. CASE RecordLevel(w)
  BY <1>13, <1>14, <1>b DEF RecordLevel
<1>15. CASE ExitLevel(w)
  <2>1. /\ \A d : KeyKept(d)
        /\ \A d \in Clients \ {c} : LevelKept(d)
    BY <1>13, <1>15 DEF ExitLevel
  <2>2. pc[w] = "exit"
    BY <1>15 DEF ExitLevel
  <2>3. CASE GotoWith(w, "announce_exit", LevelOf(c))
    BY <1>e, <2>1, <2>2, <2>3
  <2>4. CASE Return(w)
    BY <1>b, <2>1, <2>2, <2>4
  <2> QED
    BY <1>15, <2>3, <2>4 DEF ExitLevel
<1>16. CASE ReadLevel(w)
  <2>1. \A d : KeyKept(d) /\ LevelKept(d)
    BY <1>16, <1>d DEF ReadLevel, tables
  <2>2. pc[w] = "data"
    BY <1>16 DEF ReadLevel
  <2>3. CASE GotoWith(w, "store", LevelOf(c))
    BY <1>e, <2>1, <2>2, <2>3
  <2>4. CASE Return(w)
    BY <1>b, <2>1, <2>2, <2>4
  <2> QED
    BY <1>16, <2>3, <2>4 DEF ReadLevel
<1>17. CASE StoreData(w)
  BY <1>17, <1>b, <1>d DEF StoreData
<1> QED
  BY <1>1, <1>2, <1>3, <1>4, <1>6, <1>7, <1>8, <1>9, <1>10, <1>11, <1>12,
    <1>14, <1>15, <1>16, <1>17 DEF Step

(* The key a worker's packet carries outlives every step: its client can   *)
(* be given another key only by the check-in of another worker, and no two *)
(* workers have packets of one client.                                     *)
LEMMA StepKeepsKeys ==
  ASSUME TypeInv, TypeInv', SerialInv, KeyInv, NEW w \in Workers, Step(w)
  PROVE  KeyInv'
<1> DEFINE c == Client(w)
<1>1. /\ pc[w] \notin {"idle", "kick"} /\ pc'[w] # pc[w]
      /\ packet'[w] \in {packet[w], NoPacket}
      /\ \A v \in Workers \ {w} : pc'[v] = pc[v] /\ packet'[v] = packet[v]
      /\ \A d \in Clients \ {c} : KeyKept(d) /\ LevelKept(d)
      /\ \/ KeyKept(c) /\ pc[w] \notin {"verify", "add_client"}
                      /\ pc'[w] \notin {"verify", "add_client"}
         \/ /\ KeyKept(c) /\ LevelKept(c) /\ packet'[w] = NoPacket
         \/ /\ KeyKept(c) /\ LevelKept(c) /\ Verified(packet[w])
         \/ ~Known(c) /\ connected_clients'[c].key = packet[w].key
  BY StepOnClient
<1>2. Busy(w) /\ c \in Clients
  BY <1>1, BusyClient DEF SerialInv, OneJobPerClient
<1>3. ASSUME NEW v \in Workers \ {w} PROVE HasKey(v)'
  <2>1. CASE Busy(v)
    <3>1. Client(v) \in Clients \ {c}
      BY <1>2, <2>1, BusyClient DEF SerialInv, OneJobPerClient
    <3>2. HasKey(v) /\ KeyKept(Client(v)) /\ pc'[v] = pc[v] /\ packet'[v] = packet[v]
      BY <1>1, <1>3, <3>1 DEF KeyInv
    <3> QED
      BY <3>2 DEF HasKey, KeyKept, Known, Client
  <2>2. CASE ~Busy(v)
    BY <1>1, <1>3, <2>2 DEF HasKey, Busy
  <2> QED
    BY <2>1, <2>2
<1>4. HasKey(w)'
  <2>1. CASE packet'[w] = NoPacket
    BY <2>1 DEF HasKey
  <2> SUFFICES ASSUME packet'[w] = packet[w] PROVE HasKey(w)'
    BY <1>1, <2>1
  <2>2. Client(w)' = c
    BY DEF Client
  <2>3. CASE KeyKept(c) /\ pc[w] \notin {"verify", "add_client"}
    BY <1>2, <2>2, <2>3 DEF KeyInv, HasKey, KeyKept, Busy
  <2>4. CASE KeyKept(c) /\ Verified(packet[w])
    BY <2>2, <2>4 DEF HasKey, KeyKept, Verified, Client
  <2>5. CASE ~Known(c) /\ connected_clients'[c].key = packet[w].key
    BY <2>2, <2>5 DEF HasKey
  <2> QED
    BY <1>1, <2>1, <2>3, <2>4, <2>5
<1> QED
  BY <1>3, <1>4 DEF KeyInv

(* Everyone else leaves the keys of the clients that stay, and the packets *)
(* and places of the workers that are not given a new job.                 *)
LEMMA NextKeepsKeys ==
  ASSUME Serially, TypeInv, TypeInv', SerialInv, KeyInv, [Next]_vars
  PROVE  KeyInv'
<1> USE DEF TypeInv, TypeOK
<1>k. ASSUME NEW v \in Workers, \A d : KeyKept(d),
             pc'[v] = pc[v], packet'[v] = packet[v]
      PROVE  HasKey(v)'
  BY <1>k DEF KeyInv, HasKey, KeyKept, Client
<1>u. UNCHANGED connected_clients => \A d : KeyKept(d)
  BY DEF KeyKept, Known
<1>1. CASE \E w \in Workers : Step(w)
  BY <1>1, StepKeepsKeys
<1>2. ASSUME NEW t \in Tasks, NEW p \in Packets, Receive(t, p)
      PROVE  KeyInv'
  <2>1. \A v \in Workers \ {t} : pc'[v] = pc[v] /\ packet'[v] = packet[v]
    BY <1>2 DEF Receive, Workers
  <2>2. t \in Workers /\ pc'[t] \in {"verify", "add_client"}
    BY <1>2 DEF Receive, Workers
  <2>3. \A d : KeyKept(d)
    BY <1>2, <1>u DEF Receive, tables
  <2>4. HasKey(t)'
    BY <2>2 DEF HasKey
  <2> QED
    BY <1>k, <2>1, <2>3, <2>4 DEF KeyInv
<1>3. ASSUME NEW c \in Clients, KickNext(c) PROVE KeyInv'
  <2>1. \A v \in Workers \ {Janitor} : pc'[v] = pc[v] /\ packet'[v] = packet[v]
    BY <1>3 DEF KickNext, Workers
  <2>2. packet'[Janitor].kind = "Kick"
    BY <1>3 DEF KickNext, Workers
  <2>3. \A d : KeyKept(d)
    BY <1>3, <1>u DEF KickNext, tables
  <2>4. HasKey(Janitor)'
    BY <2>2 DEF HasKey
  <2> QED
    BY <1>k, <2>1, <2>3, <2>4 DEF KeyInv
<1>4. CASE CollectSilent
  <2>1. \A v \in Workers \ {Janitor} : pc'[v] = pc[v] /\ packet'[v] = packet[v]
    BY <1>4 DEF CollectSilent, Workers
  <2>2. packet'[Janitor] = NoPacket
    BY <1>4 DEF CollectSilent, SerialInv, OneJobPerClient, Busy, Workers
  <2>3. \A d : KeyKept(d)
    BY <1>4, <1>u DEF CollectSilent, tables
  <2>4. HasKey(Janitor)'
    BY <2>2 DEF HasKey
  <2> QED
    BY <1>k, <2>1, <2>3, <2>4 DEF KeyInv
<1>5. ASSUME NEW c \in Clients, GoSilent(c) PROVE KeyInv'
  <2>1. \A d : KeyKept(d)
    BY <1>5 DEF GoSilent, KeyKept, Known, ClientData
  <2> QED
    BY <1>5, <1>k, <2>1 DEF KeyInv, GoSilent, locals
<1>6. CASE Reap \/ UNCHANGED vars
  BY <1>6, <1>k, <1>u DEF KeyInv, Reap, locals, vars
<1>7. ~Tick
  BY DEF SerialInv, Serially, Tick, CollectPlayers, LockLevels, SendLevel,
    ResetPlayers, UnlockLevels
<1> QED
  BY <1>1, <1>2, <1>3, <1>4, <1>5, <1>6, <1>7 DEF Next, Environment, JanitorStep

LEMMA KeyInvariant ==
  ASSUME Serially
  PROVE  Spec => [](SerialInv /\ KeyInv)
<1>1. Init => SerialInv /\ KeyInv
  BY InitSerial DEF Init, KeyInv, HasKey
<1>2. TypeInv /\ TypeInv' /\ SerialInv /\ KeyInv /\ [Next]_vars
        => (SerialInv /\ KeyInv)'
  BY NextKeepsSerial, NextKeepsKeys
<1> QED
  BY <1>1, <1>2, TypeInvariant, PTL DEF Spec

(* Only a worker's own client changes level or goes.                       *)
LEMMA OnlyStepsMove ==
  ASSUME Serially, TypeInv, TypeInv', SerialInv, [Next]_vars,
         NEW c \in Clients, SessionChanged(c)
  PROVE  \E w \in Workers : Step(w) /\ Client(w) = c
<1> USE DEF TypeInv, TypeOK
<1>s. ~LevelKept(c)
  BY DEF SessionChanged, LevelKept
<1>1. CASE \E w \in Workers : Step(w)
  BY <1>1, <1>s, StepOnClient
<1>2. CASE \/ \E t \in Tasks, p \in Packets : Receive(t, p)
           \/ JanitorStep \/ Reap \/ UNCHANGED vars
  BY <1>2, <1>s DEF Receive, JanitorStep, CollectSilent, KickNext, Reap,
    tables, vars, LevelKept, Known
<1>3. ~\E d \in Clients : GoSilent(d)
  BY <1>s DEF GoSilent, LevelKept, Known, ClientData
<1>4. ~Tick
  BY DEF SerialInv, Serially, Tick, CollectPlayers, LockLevels, SendLevel,
    ResetPlayers, UnlockLevels
<1> QED
  BY <1>1, <1>2, <1>3, <1>4 DEF Next, Environment

(* When the jobs on one client do not overlap, a session ends or changes   *)
(* level only at the hand of the janitor or of a packet with its own key.  *)
THEOREM OnlyOwnPackets ==
  ASSUME Serially
  PROVE  Spec => OnlyOwnPacketsMoveSession
<1>1. ASSUME TypeInv, TypeInv', SerialInv, KeyInv, [Next]_vars,
             NEW c \in Clients, SessionChanged(c)
      PROVE  \E w \in Workers :
               /\ pc[w] # "idle" /\ pc'[w] # pc[w]
               /\ packet[w] # NoPacket /\ Client(w) = c
               /\ packet[w].kind = "Kick" \/ packet[w].key = connected_clients[c].key
  <2>1. PICK w \in Workers : Step(w) /\ Client(w) = c
    BY <1>1, OnlyStepsMove
  <2>2. Known(c) /\ ~LevelKept(c)
    BY <1>1 DEF SessionChanged, LevelKept
  <2>3. /\ pc[w] \notin {"idle", "kick"} /\ pc'[w] # pc[w]
        /\ pc[w] \notin {"verify", "add_client"}
    BY <1>1, <2>1, <2>2, StepOnClient
  <2>4. packet[w] # NoPacket
    BY <1>1, <2>3 DEF SerialInv, OneJobPerClient, Busy
  <2>5. packet[w].kind = "Kick" \/ packet[w].key = connected_clients[c].key
    BY <1>1, <2>1, <2>2, <2>3, <2>4 DEF KeyInv, HasKey
  <2> QED
    BY <2>1, <2>3, <2>4, <2>5
<1>2. TypeInv /\ TypeInv' /\ SerialInv /\ KeyInv /\ [Next]_vars
        => [\A c \in Clients : SessionChanged(c) =>
             \E w \in Workers :
               /\ pc[w] # "idle" /\ pc'[w] # pc[w]
               /\ packet[w] # NoPacket /\ Client(w) = c
               /\ packet[w].kind = "Kick" \/ packet[w].key = connected_clients[c].key
           ]_vars
  BY <1>1
<1> QED
  BY <1>2, KeyInvariant, TypeInvariant, PTL DEF Spec, OnlyOwnPacketsMoveSession
=============================================================================
