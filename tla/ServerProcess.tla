--------------------------- MODULE ServerProcess ---------------------------
(***************************************************************************)
(* The lives of a server process: how it starts (main.c, chunk/seed.c,     *)
(* fs.c of lib/core), the clock its frames keep (main.c, time.c of         *)
(* lib/core) and how it ends, by a signal or a crash.  What the frames do  *)
(* is in the other modules.                                                *)
(*                                                                         *)
(* A seed is a name, of which a crash may leave the first bytes in the     *)
(* file; what was written stays.  Time is a number of ticks, Dt of them to *)
(* a frame; the wall clock the code reads is not set meanwhile.            *)
(*                                                                         *)
(* A definition X_Y is X with a bug; it is used nowhere.                   *)
(***************************************************************************)
EXTENDS Integers, FiniteSets

CONSTANTS
  Seed,      \* what rand can make up
  SeedSize,  \* bytes of a seed: 32 in the code
  NoFile,
  Dt,        \* FIXED_DT, in ticks
  MaxWork,   \* bound: ticks a frame takes, at most
  MaxLives   \* bound: starts

ASSUME ProcessAssumption ==
  /\ SeedSize \in Nat \ {0} /\ Dt \in Nat \ {0} /\ MaxWork \in Nat /\ MaxLives \in Nat

VARIABLES
  pc,           \* where the process is, "down" when there is none
  file,         \* the seed file
  seed,         \* the seed the process works with
  quit,         \* the flag of the signal handler
  compensation,
  hurry,        \* history: ticks that any frames up to now came too early
  lives,        \* history: starts
  used,         \* history: seeds the world was generated with
  faults        \* history: the seed file was there and could not be read

world == <<file, used, faults>>
clock == <<compensation, hurry>>
processVars == <<pc, world, seed, quit, clock, lives>>

Text(s, n) == [name |-> s, length |-> n]
NoText == Text("", 0)

ASSUME NoFileAssumption == NoFile \notin [name : Seed, length : 0 .. SeedSize]

ProcessInit ==
  /\ pc = "down" /\ file = NoFile /\ seed = NoText /\ quit = FALSE
  /\ compensation = 0 /\ hurry = 0
  /\ lives = 0 /\ used = {} /\ faults = FALSE
-----------------------------------------------------------------------------
(***************************************************************************)
(* Starting: world_init, then the databases and the mods.                  *)
(***************************************************************************)
Start ==
  /\ pc = "down" /\ lives < MaxLives
  /\ lives' = lives + 1
  /\ pc' = "read"
  /\ seed' = NoText /\ quit' = FALSE /\ compensation' = 0 /\ hurry' = 0
  /\ UNCHANGED world

\* Whatever length the file has.
ReadSeed ==
  /\ pc = "read" /\ file # NoFile
  /\ seed' = file
  /\ pc' = "databases"
  /\ UNCHANGED <<world, quit, clock, lives>>

\* There is no file, or it cannot be opened or read: for the code the same.
MakeUpSeed ==
  /\ pc = "read"
  /\ \E s \in Seed : seed' = Text(s, SeedSize)
  /\ faults' = (faults \/ file # NoFile)
  /\ pc' = "mkdir"
  /\ UNCHANGED <<file, used, quit, clock, lives>>

MakeDirectory ==
  /\ pc = "mkdir"
  /\ pc' = "open"
  /\ UNCHANGED <<world, seed, quit, clock, lives>>

\* write_file_all opens the file, which empties it, and writes until all is
\* written.
Truncated(s) == Text(s.name, 0)

OpenSeed ==
  /\ pc = "open"
  /\ file' = Truncated(seed)
  /\ pc' = "write"
  /\ UNCHANGED <<used, faults, seed, quit, clock, lives>>

\* Whether the loop of write_all is done.
Written_Once(n) == TRUE
Written(n) == n = seed.length

WriteSeed ==
  /\ pc = "write"
  /\ \E n \in file.length + 1 .. seed.length :
       /\ file' = Text(seed.name, n)
       /\ pc' = IF Written(n) THEN "databases" ELSE "write"
  /\ UNCHANGED <<used, faults, seed, quit, clock, lives>>

\* A step fails and init exits.
StartFails ==
  /\ pc \in {"mkdir", "open", "write", "databases"}
  /\ pc' = "down"
  /\ UNCHANGED <<world, seed, quit, clock, lives>>

Started ==
  /\ pc = "databases"
  /\ pc' = "update"
  /\ used' = used \cup {seed}
  /\ UNCHANGED <<file, faults, seed, quit, clock, lives>>
-----------------------------------------------------------------------------
(***************************************************************************)
(* Running.                                                                *)
(***************************************************************************)
AtLeast0(n) == IF n < 0 THEN 0 ELSE n

Compensated_Freely(diff) == diff - Dt
Compensated(diff) == IF diff - Dt < Dt THEN diff - Dt ELSE Dt

\* A frame of `work' ticks that is followed by the next one at once, or by a
\* sleep for the rest of its time.
Frame(work) ==
  LET diff == work + compensation
  IN  /\ pc = "update"
      /\ IF diff > Dt
         THEN /\ compensation' = Compensated(diff)
              /\ hurry' = AtLeast0(hurry + Dt - work)
              /\ pc' = "update"
         ELSE /\ compensation' = 0
              /\ hurry' = AtLeast0(hurry + Dt - (work + (Dt - diff)))
              /\ pc' = "sleep"
      /\ UNCHANGED <<world, seed, quit, lives>>

Wake ==
  /\ pc = "sleep"
  /\ pc' = "update"
  /\ UNCHANGED <<world, seed, quit, clock, lives>>

\* SIGTERM or SIGINT.  The flag is tested only where a signal interrupts the
\* sleep: one that comes at another time has no effect until the next.
Interrupts == pc = "sleep"

Signal ==
  /\ pc # "down"
  /\ quit' = TRUE
  /\ pc' = IF Interrupts THEN "down" ELSE pc
  /\ UNCHANGED <<world, seed, clock, lives>>

Crash ==
  /\ pc # "down"
  /\ pc' = "down"
  /\ UNCHANGED <<world, seed, quit, clock, lives>>

ProcessNext ==
  \/ Start \/ ReadSeed \/ MakeUpSeed \/ MakeDirectory \/ OpenSeed \/ WriteSeed
  \/ StartFails \/ Started
  \/ \E work \in 0 .. MaxWork : Frame(work)
  \/ Wake \/ Signal \/ Crash

ProcessSpec == ProcessInit /\ [][ProcessNext]_processVars
-----------------------------------------------------------------------------
(***************************************************************************)
(* Properties.                                                             *)
(***************************************************************************)
\* Every life of the server generates the world from the same seed, crashes
\* while the seed is being written included, as long as the file can be read
\* when it is there.
OneSeed == ~faults => Cardinality(used) <= 1

\* However long some frames take, any number of frames in a row comes at most
\* one FIXED_DT early, so that no lag spike is made up for by more than that.
NotHurried == hurry <= Dt
=============================================================================
