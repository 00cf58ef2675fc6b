----------------------------- MODULE Provision ------------------------------
(***************************************************************************)
(* From what a user asks for to the container Docker is told to make:      *)
(* Validate (store/models.go), the defaults of handleCreateServer, specFor *)
(* and recreateContainer (api/servers.go), buildEnv and buildResources     *)
(* (docker/minecraft.go), for one server over its life.  Its row survives  *)
(* restarts of the process, each with a configuration of its own, and its  *)
(* container may be lost and made again from the row.  The interleavings   *)
(* of several servers are Lifecycle's.                                     *)
(*                                                                         *)
(* A size is a number and its unit.  A word holds the integers from        *)
(* -HalfWord to HalfWord - 1; HalfWord is 2^63 and a G is 2^30 in the code, *)
(* and both are parameters, so that an overflow is within reach of small   *)
(* numbers.                                                                *)
(***************************************************************************)
EXTENDS Integers

CONSTANTS
  Texts,     \* the strings there are
  Inputs,    \* the bodies of POST /api/servers
  Names,     \* the names a rename gives
  Configs,   \* the configurations the process is started with
  Types,     \* the server types ServerType.Valid knows
  HalfWord,  \* half the values of an int64
  Bytes,     \* of each unit: G, M, K, and B for none
  None

NoText == ""

Units == {"B", "K", "M", "G"}

\* A size as a user writes it: nothing, something that is not a size, or one.
Size == [kind : {"unset", "malformed", "size"}, amount : Int, unit : Units]

\* A CreateServerInput, and the columns of a record that a container is made from.
Body == [name : Texts, type : Texts, version : Texts, provider : Texts,
         pack : Texts, memory : Size, cpu : Int]

Config == [memory : Size, cpu : Int, key : Texts]

ASSUME WordAssumption ==
  HalfWord \in Nat \ {0} /\ Bytes \in [Units -> Nat \ {0}]
ASSUME TextAssumption ==
  /\ {NoText, "VANILLA", "LATEST"} \subseteq Texts /\ Names \subseteq Texts
  /\ Types \subseteq Texts \ {NoText, "MODRINTH", "AUTO_CURSEFORGE"}
  /\ "VANILLA" \in Types
ASSUME InputAssumption == Inputs \subseteq Body /\ Configs \subseteq Config
ASSUME NoneAssumption == None \notin Body

VARIABLES
  cfg,       \* the running process's configuration
  row,       \* the server's record, or None
  container, \* its container's environment and limits, or None
  first      \* the container it was created with (a history)

vars == <<cfg, row, container, first>>

Init == cfg \in Configs /\ row = None /\ container = None /\ first = None
-----------------------------------------------------------------------------
(***************************************************************************)
(* parseSize, deriveMemoryLimit.                                           *)
(***************************************************************************)
MaxWord == HalfWord - 1

\* What is left of an integer in a word of two's complement.
Word(i) == ((i + HalfWord) % (2 * HalfWord)) - HalfWord

\* Not a number with at most a unit behind it, or not one of 64 bits.
Malformed(size) ==
  size.kind # "size" \/ size.amount \notin -HalfWord .. MaxWord

ParseSize(size) == Word(size.amount * Bytes[size.unit])

Headroom == Bytes["G"]

\* Mutant of DeriveMemoryLimit: no room beside the heap.
HeapOnly(size) == IF Malformed(size) THEN 0 ELSE ParseSize(size)

\* 0 is no limit.
DeriveMemoryLimit(size) ==
  IF Malformed(size) \/ ParseSize(size) = 0 THEN 0
  ELSE Word(ParseSize(size) + Headroom)
-----------------------------------------------------------------------------
(***************************************************************************)
(* Validate and the defaults.                                              *)
(***************************************************************************)
\* Nothing but spaces; for a name, over 64 characters as well.
Blank(text) == text = NoText

Valid(in) ==
  /\ ~Blank(in.name) /\ in.type \in Types \cup {NoText}
  /\ in.provider \in {NoText, "modrinth", "curseforge"}
  /\ in.provider # NoText => ~Blank(in.pack)
  /\ in.cpu >= 0

OrElse(value, default) == IF value = NoText THEN default ELSE value

Unset(size) == size.kind = "unset"

NewRow(in) ==
  [name |-> in.name, type |-> OrElse(in.type, "VANILLA"),
   version |-> OrElse(in.version, "LATEST"),
   provider |-> in.provider, pack |-> in.pack,
   memory |-> IF Unset(in.memory) THEN cfg.memory ELSE in.memory,
   cpu |-> IF in.cpu = 0 THEN cfg.cpu ELSE in.cpu]
-----------------------------------------------------------------------------
(***************************************************************************)
(* specFor, buildEnv, buildResources.                                      *)
(***************************************************************************)
\* A pack is MODRINTH_MODPACK or CF_SLUG; the name is the message of the day.
Env(srv, type, pack, key, version) ==
  [TYPE |-> type, PACK |-> pack, KEY |-> key, VERSION |-> version,
   MEMORY |-> srv.memory, MOTD |-> srv.name]

\* Mutant of PackEnv: the version is left beside a pack's own.
PackBeside(srv) ==
  CASE srv.provider = "modrinth" -> Env(srv, "MODRINTH", srv.pack, NoText, srv.version)
    [] srv.provider = "curseforge" ->
         Env(srv, "AUTO_CURSEFORGE", srv.pack, cfg.key, srv.version)
    [] OTHER -> Env(srv, srv.type, NoText, NoText, srv.version)

\* A pack takes the type over and pins its own version.
PackEnv(srv) ==
  CASE srv.provider = "modrinth" -> Env(srv, "MODRINTH", srv.pack, NoText, NoText)
    [] srv.provider = "curseforge" ->
         Env(srv, "AUTO_CURSEFORGE", srv.pack, cfg.key, NoText)
    [] OTHER -> Env(srv, srv.type, NoText, NoText, srv.version)

\* A variable that is empty is not set; the heap never is (the default is not).
BuildEnv(srv) ==
  LET env == PackEnv(srv)
  IN  [k \in {k \in DOMAIN env : k = "MEMORY" \/ env[k] # NoText} |-> env[k]]

\* Mutant of BuildResources: the default cap is looked up when a container is
\* made.
CpuOrDefault(srv) ==
  [memory |-> DeriveMemoryLimit(srv.memory),
   cpu |-> IF srv.cpu > 0 THEN srv.cpu ELSE IF cfg.cpu > 0 THEN cfg.cpu ELSE 0]

BuildResources(srv) ==
  [memory |-> DeriveMemoryLimit(srv.memory), cpu |-> IF srv.cpu > 0 THEN srv.cpu ELSE 0]

ContainerFor(srv) == [env |-> BuildEnv(srv), limits |-> BuildResources(srv)]
-----------------------------------------------------------------------------
(***************************************************************************)
(* The handlers, and what happens to the process and the container.        *)
(***************************************************************************)
\* The Engine takes no negative limit, and may fail for reasons of its own.
MakeContainer(srv) ==
  \/ /\ BuildResources(srv).memory >= 0
     /\ container' = ContainerFor(srv)
     /\ first' = IF first = None THEN container' ELSE first
  \/ UNCHANGED <<container, first>>

Create(in) ==
  /\ row = None /\ Valid(in)
  /\ in.provider = "curseforge" => cfg.key # NoText
  /\ row' = NewRow(in) /\ MakeContainer(row') /\ UNCHANGED cfg

Rename(name) ==
  /\ row # None /\ ~Blank(name)
  /\ row' = [row EXCEPT !.name = name] /\ UNCHANGED <<cfg, container, first>>

\* Start makes the container again when the record has none or it is gone.
Start ==
  /\ row # None /\ container = None
  /\ MakeContainer(row) /\ UNCHANGED <<cfg, row>>

\* docker rm, behind the process's back.
ContainerLost ==
  /\ container # None /\ container' = None /\ UNCHANGED <<cfg, row, first>>

Restart(c) == cfg' = c /\ UNCHANGED <<row, container, first>>

Next ==
  \/ \E in \in Inputs : Create(in)
  \/ \E name \in Names : Rename(name)
  \/ Start \/ ContainerLost
  \/ \E c \in Configs : Restart(c)

Spec == Init /\ [][Next]_vars
-----------------------------------------------------------------------------
(***************************************************************************)
(* Properties.                                                             *)
(***************************************************************************)
\* A lost container is made again as it was, but for the name and the key,
\* whatever the process's defaults have become (servers.go:195, :323).
MadeAgainTheSame ==
  container # None =>
    LET kept(c) == [k \in DOMAIN c.env \ {"MOTD", "KEY"} |-> c.env[k]]
    IN  kept(container) = kept(first) /\ container.limits = first.limits

\* A well-formed heap gets exactly its size and the headroom as the container's
\* limit, as long as both fit in a word: the kernel must not kill a JVM that
\* keeps to its heap (minecraft.go:303).
CapHoldsTheHeap ==
  container # None =>
    LET size == container.env["MEMORY"]
        heap == size.amount * Bytes[size.unit]
    IN  ~Malformed(size) /\ heap > 0 /\ heap + Headroom <= MaxWord
          => container.limits.memory = heap + Headroom

\* A container runs a pack or a version, never both and never neither
\* (minecraft.go:262), whatever its record was given.
PackOrVersion ==
  container # None =>
    /\ "PACK" \in DOMAIN container.env <=> "VERSION" \notin DOMAIN container.env
    /\ container.env["TYPE"] \in Types <=> "VERSION" \in DOMAIN container.env
=============================================================================
