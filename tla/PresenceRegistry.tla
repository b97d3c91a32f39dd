-------------------------- MODULE PresenceRegistry --------------------------
(***************************************************************************)
(* The current-presence registry of one app, at the granularity of its     *)
(* locks.  Threads call it at once: the mutex of a connection's            *)
(* coordination shard, the guards of the channel map and of a channel's    *)
(* client entries, and the mutexes of the capacity shards are taken one by *)
(* one in the order of the code.                                           *)
(*                                                                         *)
(* A channel's state is an Arc: the channel map, each connection's own map *)
(* and the callers hold references to it, and two Arcs of one channel are  *)
(* two different states.  The channel map is taken as one DashMap shard,   *)
(* the worst case of its hashing.                                          *)
(***************************************************************************)
EXTENDS Naturals, FiniteSets, FiniteSetsExt

CONSTANTS
  Threads, Conns, Channels, Clients,
  Keepers,      \* connections remove_client_except is called for
  ConnShard,    \* connection -> its coordination shard
  CapShard,     \* <<channel, client>> -> its capacity shard
  Shards,       \* capacity shards, an initial segment of the positive numbers
  MaxMembers,   \* max_members
  Batch,        \* capacity_batch
  MaxCached,    \* max_cached_channels
  ReleaseIdle,  \* max_members <= COORDINATION_SHARDS
  Ops,          \* the operations the threads call
  None

ASSUME RegistryAssumption ==
  /\ {MaxMembers, Batch, MaxCached} \subseteq Nat \ {0}
  /\ ReleaseIdle \in BOOLEAN
  /\ IsFiniteSet(Threads) /\ IsFiniteSet(Conns) /\ IsFiniteSet(Shards)
  /\ Shards = 1..Cardinality(Shards)
  /\ CapShard \in [Channels \X Clients -> Shards]
  /\ Ops \subseteq {"register", "enter", "leave", "detach", "unregister", "supersede"}
  /\ None \notin Threads

VARIABLES
  conns,     \* registered connections
  channels,  \* app.channels: channel -> Arc, 0 is no entry
  link,      \* a connection's channels: channel -> Arc, 0 is no entry
  members,   \* current members of every Arc
  active, reserved,  \* the capacity shards
  total,     \* reserved_capacity
  lock,      \* coordination shard -> the thread that holds its mutex
  thread     \* each thread's call

vars == <<conns, channels, link, members, active, reserved, total, lock, thread>>

Member == [ch : Channels, arc : Nat \ {0}, client : Clients, conn : Conns]

Idle == [pc |-> "idle", op |-> None, conn |-> None, ch |-> None, client |-> None,
         arc |-> 0, todo |-> {}, shard |-> 0]

PCs == {"idle", "lock", "find", "get", "prune", "insert", "link", "enter",
        "reclaim", "list", "remove", "release"}

Call == [pc : PCs, op : Ops \union {None}, conn : Conns \union Keepers \union {None},
         ch : Channels \union {None}, client : Clients \union {None}, arc : Nat,
         todo : SUBSET Member, shard : 0..Cardinality(Shards)]

(* The maps, capacity shards, mutexes and callers have their types; in     *)
(* particular neither a shard nor reserved_capacity passes max_members.    *)
TypeOK ==
  /\ conns \subseteq Conns
  /\ channels \in [Channels -> Nat]
  /\ link \in [Conns -> [Channels -> Nat]]
  /\ members \subseteq Member
  /\ active \in [Shards -> 0..MaxMembers]
  /\ reserved \in [Shards -> 0..MaxMembers]
  /\ total \in 0..MaxMembers
  /\ lock \in [{ConnShard[c] : c \in Conns} -> Threads \union {None}]
  /\ thread \in [Threads -> Call]

Init ==
  /\ conns = {}
  /\ channels = [ch \in Channels |-> 0]
  /\ link = [c \in Conns |-> [ch \in Channels |-> 0]]
  /\ members = {}
  /\ active = [s \in Shards |-> 0]
  /\ reserved = [s \in Shards |-> 0]
  /\ total = 0
  /\ lock = [s \in {ConnShard[c] : c \in Conns} |-> None]
  /\ thread = [t \in Threads |-> Idle]

At(t, pc) == thread[t].pc = pc

Goto(t, pc) == thread' = [thread EXCEPT ![t].pc = pc]

MyLock(t) == ConnShard[thread[t].conn]

(* The MutexGuard of the connection is dropped.                            *)
Unlock(t) == lock' = [lock EXCEPT ![MyLock(t)] = None]

(* The call returns and its guards are dropped.                            *)
Return(t) == Unlock(t) /\ thread' = [thread EXCEPT ![t] = Idle]

(* remove_client_except keeps the guard of app.channels.get(channel) for   *)
(* its whole loop: readers share the shard, writers wait for them.         *)
Readers == {t \in Threads : thread[t].op = "supersede" /\ thread[t].pc # "list"}

(* The Occupied or Vacant entry of state.clients is held while a slot is   *)
(* reserved, which takes more than one step when unused ones are reclaimed.*)
EntryHeld(arc, ch, client) ==
  \E t \in Threads : /\ At(t, "reclaim")
                     /\ thread[t].arc = arc
                     /\ thread[t].ch = ch
                     /\ thread[t].client = client

Owned(c, ch, arc) == {m \in members : m.conn = c /\ m.ch = ch /\ m.arc = arc}

(* Arc::strong_count of a channel's state.                                 *)
References(ch, arc) ==
  Cardinality({c \in Conns : link[c][ch] = arc})
    + Cardinality({t \in Threads : At(t, "link") /\ thread[t].ch = ch /\ thread[t].arc = arc})
    + IF channels[ch] = arc THEN 1 ELSE 0

FreshArc(ch) ==
  LET used == {channels[ch]} \union {link[c][ch] : c \in Conns}
                \union {thread[t].arc : t \in Threads} \union {m.arc : m \in members}
  IN CHOOSE arc \in 1..(Cardinality(used) + 1) : arc \notin used

-----------------------------------------------------------------------------
(* Calls.                                                                  *)

Start(t, op, c, ch, client, pc) ==
  /\ op \in Ops
  /\ At(t, "idle")
  /\ thread' = [thread EXCEPT ![t] = [Idle EXCEPT !.pc = pc, !.op = op, !.conn = c,
                                                  !.ch = ch, !.client = client]]
  /\ UNCHANGED <<conns, channels, link, members, active, reserved, total, lock>>

CallEnter(t) ==
  \E c \in Conns, ch \in Channels, cl \in Clients : Start(t, "enter", c, ch, cl, "lock")

CallLeave(t) ==
  \E c \in Conns, ch \in Channels, cl \in Clients : Start(t, "leave", c, ch, cl, "lock")

CallDetach(t) ==
  \E c \in Conns, ch \in Channels : Start(t, "detach", c, ch, None, "lock")

CallUnregister(t) ==
  \E c \in Conns : Start(t, "unregister", c, None, None, "lock")

CallSupersede(t) ==
  \E c \in Keepers, ch \in Channels, cl \in Clients : Start(t, "supersede", c, ch, cl, "list")

(* register_connection: the lock, the insertion and the unlock in one.     *)
Register(t) ==
  /\ "register" \in Ops
  /\ At(t, "idle")
  /\ \E c \in Conns : /\ lock[ConnShard[c]] = None
                      /\ conns' = conns \union {c}
  /\ UNCHANGED <<channels, link, members, active, reserved, total, lock, thread>>

(* The members of the connection that its call removes, listed under its   *)
(* mutex.                                                                  *)
Listed(r) ==
  CASE r.op = "leave" -> {m \in Owned(r.conn, r.ch, link[r.conn][r.ch]) : m.client = r.client}
    [] r.op = "detach" -> Owned(r.conn, r.ch, link[r.conn][r.ch])
    [] r.op = "unregister" -> UNION {Owned(r.conn, ch, link[r.conn][ch]) : ch \in Channels}
    [] OTHER -> r.todo

(* The mutex of the connection's coordination shard.                       *)
Acquire(t) ==
  LET r == thread[t] IN
  /\ At(t, "lock")
  /\ lock[MyLock(t)] = None
  /\ lock' = [lock EXCEPT ![MyLock(t)] = t]
  /\ thread' = [thread EXCEPT ![t].pc = IF r.op = "enter" THEN "find" ELSE "remove",
                              ![t].todo = Listed(r)]
  /\ UNCHANGED <<conns, channels, link, members, active, reserved, total>>

(* An enter of a connection that is not registered: ConnectionNotFound.    *)
NotFound(t) ==
  /\ At(t, "find")
  /\ thread[t].conn \notin conns
  /\ Return(t)
  /\ UNCHANGED <<conns, channels, link, members, active, reserved, total>>

-----------------------------------------------------------------------------
(* apply_present.                                                          *)

(* prune_connection_channels: a full connection forgets entries of         *)
(* channels that it is not a member of, PruneLimit of them at most.        *)
PruneLimit == 16
Unowned(c) == {ch \in Channels : link[c][ch] # 0 /\ Owned(c, ch, link[c][ch]) = {}}
PruneChoices(c) ==
  IF Cardinality({ch \in Channels : link[c][ch] # 0}) >= MaxCached
  THEN {S \in SUBSET Unowned(c) :
          \/ Cardinality(S) = PruneLimit
          \/ Cardinality(S) < PruneLimit /\ S = Unowned(c)}
  ELSE {{}}
PruneLinks(c, S) == [link EXCEPT ![c] = [ch \in Channels |-> IF ch \in S THEN 0 ELSE link[c][ch]]]

(* The connection's own entry of the channel, or a look into app.channels. *)
Find(t) ==
  LET r == thread[t] IN
  /\ At(t, "find")
  /\ r.conn \in conns
  /\ \/ /\ link[r.conn][r.ch] # 0
        /\ thread' = [thread EXCEPT ![t].pc = "enter", ![t].arc = link[r.conn][r.ch]]
        /\ UNCHANGED link
     \/ /\ link[r.conn][r.ch] = 0
        /\ \E S \in PruneChoices(r.conn) : link' = PruneLinks(r.conn, S)
        /\ Goto(t, "get")
  /\ UNCHANGED <<conns, channels, members, active, reserved, total, lock>>

(* app_channel_state, app.channels.get and the check of the cache's size.  *)
Get(t) ==
  LET r == thread[t] IN
  /\ At(t, "get")
  /\ thread' = [thread EXCEPT
       ![t] = CASE channels[r.ch] # 0 -> [@ EXCEPT !.pc = "link", !.arc = channels[r.ch]]
                [] /\ channels[r.ch] = 0
                   /\ Cardinality({ch \in Channels : channels[ch] # 0}) >= MaxCached ->
                     [@ EXCEPT !.pc = "prune"]
                [] OTHER -> [@ EXCEPT !.pc = "insert"]]
  /\ UNCHANGED <<conns, channels, link, members, active, reserved, total, lock>>

(* Mutant: the references of callers and connections are not counted.      *)
PrunableEmpty(ch) ==
  /\ channels[ch] # 0
  /\ ~\E m \in members : m.ch = ch /\ m.arc = channels[ch]

(* A cached state without members that only the channel map refers to.     *)
Prunable(ch) ==
  /\ channels[ch] # 0
  /\ References(ch, channels[ch]) = 1
  /\ ~\E m \in members : m.ch = ch /\ m.arc = channels[ch]

(* prune_empty_channels: remove_if looks again and takes the shard for     *)
(* writing, for one candidate after the other.  Candidates are listed      *)
(* earlier and at most sixteen, so the pass may end with some left.        *)
Prune(t) ==
  /\ At(t, "prune")
  /\ \/ /\ Readers = {}
        /\ \E ch \in Channels : /\ Prunable(ch)
                                /\ channels' = [channels EXCEPT ![ch] = 0]
        /\ UNCHANGED thread
     \/ /\ Goto(t, "insert")
        /\ UNCHANGED channels
  /\ UNCHANGED <<conns, link, members, active, reserved, total, lock>>

(* app.channels.entry, for writing too: another caller may have been first.*)
Insert(t) ==
  LET r == thread[t]
      arc == IF channels[r.ch] # 0 THEN channels[r.ch] ELSE FreshArc(r.ch)
  IN
  /\ At(t, "insert")
  /\ Readers = {}
  /\ channels' = [channels EXCEPT ![r.ch] = arc]
  /\ thread' = [thread EXCEPT ![t].pc = "link", ![t].arc = arc]
  /\ UNCHANGED <<conns, link, members, active, reserved, total, lock>>

Link(t) ==
  LET r == thread[t] IN
  /\ At(t, "link")
  /\ link' = [link EXCEPT ![r.conn][r.ch] = IF @ = 0 THEN r.arc ELSE @]
  /\ thread' = [thread EXCEPT ![t].pc = "find", ![t].arc = 0]
  /\ UNCHANGED <<conns, channels, members, active, reserved, total, lock>>

Record(r) == [ch |-> r.ch, arc |-> r.arc, client |-> r.client, conn |-> r.conn]

(* Mutant: a whole batch, whatever is left.                                *)
GrantBatch(s) == IF active[s] < reserved[s] THEN 0 ELSE Batch

(* What one attempt of reserve_member grants to shard s: a slot it already *)
(* has costs nothing, another one a batch of what is left.                 *)
Grant(s) == IF active[s] < reserved[s] THEN 0 ELSE Min({MaxMembers - total, Batch})

CanReserve(s) == active[s] < reserved[s] \/ total < MaxMembers

(* A slot is reserved and the member inserted under the entry's guard.     *)
Reserve(t) ==
  LET r == thread[t]
      s == CapShard[<<r.ch, r.client>>]
  IN
  /\ CanReserve(s)
  /\ active' = [active EXCEPT ![s] = @ + 1]
  /\ reserved' = [reserved EXCEPT ![s] = @ + Grant(s)]
  /\ total' = total + Grant(s)
  /\ members' = members \union {Record(r)}
  /\ Return(t)

(* state.clients.entry: a member that is already there is replaced; a new  *)
(* one needs a slot, for which unused ones may have to be reclaimed.       *)
Enter(t) ==
  LET r == thread[t] IN
  /\ At(t, "enter")
  /\ ~EntryHeld(r.arc, r.ch, r.client)
  /\ \/ /\ Record(r) \in members
        /\ Return(t)
        /\ UNCHANGED <<members, active, reserved, total>>
     \/ /\ Record(r) \notin members
        /\ Reserve(t)
     \/ /\ Record(r) \notin members
        /\ ~CanReserve(CapShard[<<r.ch, r.client>>])
        /\ thread' = [thread EXCEPT ![t].pc = "reclaim", ![t].shard = 1]
        /\ UNCHANGED <<members, active, reserved, total, lock>>
  /\ UNCHANGED <<conns, channels, link>>

(* reclaim_unused_capacity, one shard's mutex after the other.             *)
Reclaim(t) ==
  LET s == thread[t].shard IN
  /\ At(t, "reclaim")
  /\ s \in Shards
  /\ reserved' = [reserved EXCEPT ![s] = active[s]]
  /\ total' = total - (reserved[s] - active[s])
  /\ thread' = [thread EXCEPT ![t].shard = IF s = Cardinality(Shards) THEN 0 ELSE s + 1]
  /\ UNCHANGED <<conns, channels, link, members, active, lock>>

(* The second attempt succeeds or the call answers OverCapacity.           *)
Retry(t) ==
  /\ At(t, "reclaim")
  /\ thread[t].shard = 0
  /\ \/ Reserve(t)
     \/ /\ ~CanReserve(CapShard[<<thread[t].ch, thread[t].client>>])
        /\ Return(t)
        /\ UNCHANGED <<members, active, reserved, total>>
  /\ UNCHANGED <<conns, channels, link>>

-----------------------------------------------------------------------------
(* leave, detach_connection, unregister_connection, remove_client_except.  *)

(* remove_client_except: the other connections of the client, listed under *)
(* the guard of the channel's state, which stays with the caller.          *)
List(t) ==
  LET r == thread[t]
      listed == {m \in members : /\ m.ch = r.ch
                                 /\ m.arc = channels[r.ch]
                                 /\ m.client = r.client
                                 /\ m.conn # r.conn}
  IN
  /\ At(t, "list")
  /\ ~EntryHeld(channels[r.ch], r.ch, r.client)
  /\ thread' = [thread EXCEPT
       ![t] = IF listed = {} THEN Idle
              ELSE [@ EXCEPT !.pc = "lock", !.todo = listed,
                             !.conn = (CHOOSE m \in listed : TRUE).conn]]
  /\ UNCHANGED <<conns, channels, link, members, active, reserved, total, lock>>

(* Mutant: a slot is returned for a member that is already gone, too.      *)
RemoveReleasing(t) ==
  \E l \in thread[t].todo :
    LET m == [l EXCEPT !.arc = link[l.conn][l.ch]] IN
    /\ At(t, "remove")
    /\ m.conn = thread[t].conn
    /\ ~EntryHeld(m.arc, m.ch, m.client)
    /\ members' = members \ {m}
    /\ thread' = [thread EXCEPT ![t].todo = @ \ {l},
                                ![t].pc = "release",
                                ![t].shard = CapShard[<<m.ch, m.client>>]]
    /\ UNCHANGED <<conns, channels, link, active, reserved, total, lock>>

(* leave_from_channel, remove_if_mut: the member is looked up through its  *)
(* connection again, and one that is no longer there is skipped.           *)
Remove(t) ==
  \E l \in thread[t].todo :
    LET m == [l EXCEPT !.arc = link[l.conn][l.ch]] IN
    /\ At(t, "remove")
    /\ m.conn = thread[t].conn
    /\ ~EntryHeld(m.arc, m.ch, m.client)
    /\ members' = members \ {m}
    /\ thread' = [thread EXCEPT
         ![t].todo = @ \ {l},
         ![t].pc = IF m \in members THEN "release" ELSE @,
         ![t].shard = IF m \in members THEN CapShard[<<m.ch, m.client>>] ELSE 0]
    /\ UNCHANGED <<conns, channels, link, active, reserved, total, lock>>

(* release_member.                                                         *)
Release(t) ==
  LET s == thread[t].shard
      idle == ReleaseIdle /\ active[s] = 1
  IN
  /\ At(t, "release")
  /\ active' = [active EXCEPT ![s] = @ - 1]
  /\ reserved' = [reserved EXCEPT ![s] = IF idle THEN 0 ELSE @]
  /\ total' = IF idle THEN total - reserved[s] ELSE total
  /\ thread' = [thread EXCEPT ![t].pc = "remove", ![t].shard = 0]
  /\ UNCHANGED <<conns, channels, link, members, lock>>

(* The next superseded connection, after the mutex of the last one.        *)
NextConnection(t) ==
  /\ At(t, "remove")
  /\ thread[t].op = "supersede"
  /\ \A m \in thread[t].todo : m.conn # thread[t].conn
  /\ \E m \in thread[t].todo :
       thread' = [thread EXCEPT ![t].pc = "lock", ![t].conn = m.conn]
  /\ Unlock(t)
  /\ UNCHANGED <<conns, channels, link, members, active, reserved, total>>

(* Every listed member is gone: detach drops the connection's entry of the *)
(* channel, unregister the connection.                                     *)
Finish(t) ==
  LET r == thread[t] IN
  /\ At(t, "remove")
  /\ r.todo = {}
  /\ conns' = IF r.op = "unregister" THEN conns \ {r.conn} ELSE conns
  /\ link' = CASE r.op = "detach" -> [link EXCEPT ![r.conn][r.ch] = 0]
               [] r.op = "unregister" -> [link EXCEPT ![r.conn] = [ch \in Channels |-> 0]]
               [] OTHER -> link
  /\ Return(t)
  /\ UNCHANGED <<channels, members, active, reserved, total>>

Step(t) ==
  \/ Acquire(t)
  \/ NotFound(t)
  \/ Find(t)
  \/ Get(t)
  \/ Prune(t)
  \/ Insert(t)
  \/ Link(t)
  \/ Enter(t)
  \/ Reclaim(t)
  \/ Retry(t)
  \/ List(t)
  \/ Remove(t)
  \/ Release(t)
  \/ NextConnection(t)
  \/ Finish(t)

Next ==
  \E t \in Threads : \/ Register(t)
                     \/ CallEnter(t)
                     \/ CallLeave(t)
                     \/ CallDetach(t)
                     \/ CallUnregister(t)
                     \/ CallSupersede(t)
                     \/ Step(t)

Spec == Init /\ [][Next]_vars

-----------------------------------------------------------------------------
(* Correctness.                                                            *)

(* Every member belongs to a registered connection and is found both       *)
(* through that connection's own map, which leave, detach and disconnect   *)
(* follow, and through the channel map, which snapshots and supersession   *)
(* follow: no order of joins, leaves, disconnects and pruning leaves a     *)
(* member that nobody can see or nobody can remove.                        *)
Reachable ==
  \A m \in members : /\ m.conn \in conns
                     /\ link[m.conn][m.ch] = m.arc
                     /\ channels[m.ch] = m.arc

Releasing(s) == Cardinality({t \in Threads : At(t, "release") /\ thread[t].shard = s})

(* The slots of all shards.                                                *)
ReservedSlots == UNION {{s} \X (1..reserved[s]) : s \in Shards}

(* The capacity account: the shared counter is the number of the shards'   *)
(* reserved slots, no shard has more active slots than reserved ones, and  *)
(* its active slots are its members and the slots about to be returned.    *)
CapacityExact ==
  /\ total = Cardinality(ReservedSlots)
  /\ \A s \in Shards :
       /\ active[s] <= reserved[s]
       /\ active[s] = Releasing(s)
            + Cardinality({m \in members : CapShard[<<m.ch, m.client>>] = s})

Waiting(t) ==
  \/ At(t, "lock") /\ lock[MyLock(t)] # None
  \/ At(t, "insert") /\ Readers # {}

(* "concurrency-safe": the callers of the registry never all wait for each *)
(* other.                                                                  *)
NoDeadlock ==
  (\E t \in Threads : ~At(t, "idle")) => \E t \in Threads : ~At(t, "idle") /\ ~Waiting(t)

=============================================================================
