------------------------------- MODULE Players -------------------------------
(***************************************************************************)
(* Players (player/player.c, player/manager.c) and their entities (the base *)
(* mod's player_entity_update and on_new_player), over EntityStore: who    *)
(* spawns, despawns and moves entities, and which chunk regions a frame    *)
(* works on.  A player object has two kinds of owners: the proxy of its    *)
(* client holds a strong reference, its avatar a weak one in `opaque'.     *)
(*                                                                         *)
(* What is abstracted: input moves an avatar by at most one chunk a frame; *)
(* edits are in BlockStore.  A client is used for one connection at a time *)
(* and again once the player object of the last one is freed.              *)
(*                                                                         *)
(* A definition X_Y is X with a bug; it is used nowhere.                   *)
(***************************************************************************)
EXTENDS EntityStore

CONSTANTS
  StartChunks,  \* where voxy_entity_manager_start spawns entities, a sequence
  LoginChunk,   \* where on_new_player spawns the avatar
  MajorRadius,  \* of the regions players ask for
  MinorRadius

ASSUME PlayerAssumption ==
  /\ StartChunks \in Seq(Chunk) /\ LoginChunk \in Chunk
  /\ MajorRadius \in Nat /\ MinorRadius \in Nat
  /\ None \notin Client

VARIABLES
  turn,         \* handle of the loop of on_update
  moved,        \* physics_update has run
  asked,        \* chunk_regions so far
  spawned,      \* entities spawned since the server started
  login,        \* the client whose avatar is between the statements of its spawn
  avatars,      \* rows whose entity is a player's
  opaque,       \* of the entity with each handle: a player or None
  phase,        \* of each client's connection
  count,        \* strong references of each player
  weak_count,   \* weak references
  follow        \* handle each client's camera was last told to follow

turnVars == <<turn, moved, asked>>
playerVars == <<phase, count, weak_count, follow>>
ownVars == <<turnVars, spawned, login, avatars, opaque, playerVars>>
allVars == <<vars, ownVars>>

NoFollow == [c \in Client |-> None]

PlayersInit ==
  /\ Init
  /\ turn = 0 /\ moved = FALSE /\ asked = <<>>
  /\ spawned = 0 /\ login = None /\ avatars = {}
  /\ opaque = [h \in 0 .. MaxId - 1 |-> None]
  /\ phase = [c \in Client |-> "away"]
  /\ count = [c \in Client |-> 0] /\ weak_count = [c \in Client |-> 0]
  /\ follow = NoFollow
-----------------------------------------------------------------------------
(***************************************************************************)
(* The reference counts.  A player whose counts are both zero is freed,    *)
(* which makes its client "away".                                          *)
(***************************************************************************)
Freed_OnStrong(strong, weak) == strong = 0
Freed(strong, weak) == strong = 0 /\ weak = 0

\* voxy_player_put, by the proxy.
Put(c) ==
  /\ count' = [count EXCEPT ![c] = @ - 1]
  /\ weak_count' = weak_count
  /\ phase' = [phase EXCEPT ![c] = IF Freed(count[c] - 1, weak_count[c]) THEN "away" ELSE "gone"]

\* voxy_player_put_weak.
PutWeak_Never(c) == UNCHANGED <<count, weak_count, phase>>
PutWeak(c) ==
  /\ count' = count
  /\ weak_count' = [weak_count EXCEPT ![c] = @ - 1]
  /\ phase' = [phase EXCEPT ![c] = IF Freed(count[c], weak_count[c] - 1) THEN "away" ELSE @]
-----------------------------------------------------------------------------
(***************************************************************************)
(* The loop of on_update.                                                  *)
(***************************************************************************)
InLoop == pc = "update" /\ ~moved /\ turn < Len(entities)
IsAvatar(h) == h \in Handles /\ entities[h + 1].db_id \in avatars

\* Dead handles, and entities that have no update.
TurnSkip ==
  /\ InLoop /\ ~IsAvatar(turn)
  /\ turn' = turn + 1
  /\ UNCHANGED <<vars, moved, asked, spawned, login, avatars, opaque, playerVars>>

\* player_entity_update of a connected player: it asks for a region around the
\* avatar.  The centre is rounded towards zero, so on an axis with negative
\* positions it may be the next chunk (Coordinates).
Centers(p) ==
  {q \in {Add(p, v) : v \in [1 .. 3 -> {0, 1}]} : \A d \in 1 .. 3 : p[d] >= 0 => q[d] = p[d]}

Around(center) == Region(center, MajorRadius, MinorRadius)

Asked_Once(list, center) == IF list = <<>> THEN <<Around(center)>> ELSE list
Asked(list, center) == Append(list, Around(center))

\* Each avatar asks for one region.
Asks == {Around(center) : center \in UNION {Centers(p) : p \in Chunk}}

ASSUME AskAssumption ==
  \A n \in 0 .. MaxId : [1 .. n -> Asks] \subseteq RegionLists

TurnPlayer(center) ==
  /\ InLoop /\ IsAvatar(turn)
  /\ opaque[turn] # None /\ count[opaque[turn]] # 0
  /\ center \in Centers(entities[turn + 1].chunk)
  /\ asked' = Asked(asked, center)
  /\ turn' = turn + 1
  /\ UNCHANGED <<vars, moved, spawned, login, avatars, opaque, playerVars>>

\* The player has disconnected, or the avatar was loaded from the database and
\* has lost its player: the update returns false and the entity is despawned.
TurnGone ==
  LET c == opaque[turn]
  IN  /\ InLoop /\ IsAvatar(turn)
      /\ c # None => count[c] = 0
      /\ IF c # None THEN PutWeak(c) ELSE UNCHANGED <<count, weak_count, phase>>
      /\ Despawn(turn)
      /\ avatars' = avatars \ {entities[turn + 1].db_id}
      /\ opaque' = [opaque EXCEPT ![turn] = None]
      /\ turn' = turn + 1
      /\ UNCHANGED <<moved, asked, spawned, login, follow>>

\* physics_update, and what impulses of the updates do in it.
Near(p, q) == \A d \in 1 .. 3 : p[d] - q[d] \in -1 .. 1

\* The regions of an avatar hold every chunk it can be in after its frame: so they
\* do, among any chunks, from radius 4 on.
ASSUME ReachAssumption ==
  \A p \in Chunk : \A q \in Chunk : \A center \in Centers(p) :
    Near(p, q) => InSphere(q, center, MajorRadius) /\ InSphere(q, center, MinorRadius)

Physics(where) ==
  /\ pc = "update" /\ ~moved /\ turn >= Len(entities)
  /\ \A h \in Handles : Near(entities[h + 1].chunk, where[h])
  /\ Move(where)
  /\ moved' = TRUE
  /\ UNCHANGED <<turn, asked, spawned, login, avatars, opaque, playerVars>>

Begin ==
  /\ moved
  /\ BeginUpdate(asked)
  /\ UNCHANGED ownVars

\* voxy_entity_manager_update goes on; a handle that is given out or taken back
\* has lost its opaque pointer, whoever held it (deserialization starts from
\* an empty entity, entity_free calls a destroy_opaque that does nothing).
OpaqueOfLive ==
  opaque' = [h \in DOMAIN opaque |->
              IF h \in Handles /\ h < Len(entities') /\ entities'[h + 1].alive THEN opaque[h]
              ELSE None]

Manage ==
  /\ \/ \E v \in todo : VisitLoaded(v) \/ VisitActivate(v)
     \/ VisitLoad \/ Flush \/ Keep \/ UnloadInsert \/ UnloadDelete \/ EndUpdate
     \/ \E id \in pending : LoadEntity(id)
  /\ OpaqueOfLive
  /\ UNCHANGED <<turnVars, spawned, login, avatars, playerVars>>
-----------------------------------------------------------------------------
(***************************************************************************)
(* Spawning: when the server starts, and on_new_player.                    *)
(***************************************************************************)
StartActive ==
  /\ LoadActive
  /\ UNCHANGED ownVars

StartSpawn ==
  /\ pc = "starting" /\ spawned < Len(StartChunks)
  /\ SpawnRow(StartChunks[spawned + 1])
  /\ spawned' = spawned + 1
  /\ UNCHANGED <<turnVars, login, avatars, opaque, playerVars>>

Started ==
  /\ spawned = Len(StartChunks) \/ NewId > MaxId
  /\ StartEnd
  /\ UNCHANGED ownVars

\* A login message: on_new_player spawns an avatar, one more for a client that
\* logs in again.
Login(c) ==
  /\ pc = "events" /\ phase[c] \in {"connected", "playing"}
  /\ SpawnRow(LoginChunk)
  /\ login' = c
  /\ UNCHANGED <<turnVars, spawned, avatars, opaque, playerVars>>

\* The entity is in the array; an avatar holds a weak reference, and its client
\* is told to follow it.
Referenced_Uncounted(c) == weak_count
Referenced(c) == [weak_count EXCEPT ![c] = @ + 1]

Spawn ==
  /\ SpawnActive
  /\ opaque' = [opaque EXCEPT ![NewHandle] = login]
  /\ IF login = None
     THEN /\ avatars' = avatars \ {moving}
          /\ UNCHANGED playerVars
     ELSE /\ avatars' = avatars \cup {moving}
          /\ weak_count' = Referenced(login)
          /\ follow' = [follow EXCEPT ![login] = NewHandle]
          /\ phase' = [phase EXCEPT ![login] = "playing"]
          /\ UNCHANGED count
  /\ login' = None
  /\ UNCHANGED <<turnVars, spawned>>
-----------------------------------------------------------------------------
(***************************************************************************)
(* The events of a frame.                                                  *)
(***************************************************************************)
\* voxy_player_create.
Connect(c) ==
  /\ phase[c] = "away"
  /\ ClientConnected(c)
  /\ phase' = [phase EXCEPT ![c] = "connected"]
  /\ count' = [count EXCEPT ![c] = 1] /\ weak_count' = [weak_count EXCEPT ![c] = 0]
  /\ UNCHANGED <<turnVars, spawned, login, avatars, opaque, follow>>

Disconnect(c) ==
  /\ ClientDisconnected(c)
  /\ Put(c)
  /\ follow' = [follow EXCEPT ![c] = None]
  /\ UNCHANGED <<turnVars, spawned, login, avatars, opaque>>

FrameEnd ==
  /\ EventsEnd
  /\ turn' = 0 /\ moved' = FALSE /\ asked' = <<>>
  /\ UNCHANGED <<spawned, login, avatars, opaque, playerVars>>

\* The process ends and is started again; the players are gone.
RestartAll ==
  /\ Restart
  /\ turn' = 0 /\ moved' = FALSE /\ asked' = <<>>
  /\ spawned' = 0 /\ login' = None
  /\ opaque' = [h \in DOMAIN opaque |-> None]
  /\ phase' = [c \in Client |-> "away"]
  /\ count' = [c \in Client |-> 0] /\ weak_count' = [c \in Client |-> 0]
  /\ follow' = NoFollow
  /\ UNCHANGED avatars
-----------------------------------------------------------------------------
Update ==
  \/ TurnSkip \/ TurnGone
  \/ \E center \in UNION {Centers(p) : p \in Chunk} : TurnPlayer(center)
  \/ \E where \in [Handles -> Chunk] : Physics(where)
  \/ Begin

PlayersNext ==
  \/ StartActive \/ StartSpawn \/ Started
  \/ Update \/ Manage
  \/ Spawn
  \/ \E c \in Client : Connect(c) \/ Login(c) \/ Disconnect(c)
  \/ FrameEnd
  \/ RestartAll

PlayersSpec == PlayersInit /\ [][PlayersNext]_allVars
-----------------------------------------------------------------------------
(***************************************************************************)
(* Properties.                                                             *)
(***************************************************************************)
AvatarsOf(c) == {h \in Handles : opaque[h] = c}

\* A player object lives exactly as long as something refers to it: the strong
\* count is that of its connection, the weak count that of the avatars that
\* point to it, and no avatar points to a freed player.
PlayersLive ==
  \A c \in Client :
    /\ count[c] = (IF phase[c] \in {"connected", "playing"} THEN 1 ELSE 0)
    /\ phase[c] # "away" => weak_count[c] = Cardinality(AvatarsOf(c)) /\ count[c] + weak_count[c] > 0
    /\ phase[c] = "away" => AvatarsOf(c) = {}

\* The camera of a playing client follows an avatar of its own, and the client has
\* been told of all its avatars: none is ever unloaded, by any frame, because its
\* update asks for the chunks it can be in when the frame unloads.
AvatarStays ==
  \A c \in Client : phase[c] = "playing" =>
    follow[c] \in AvatarsOf(c) /\ AvatarsOf(c) \subseteq told[c]
=============================================================================
