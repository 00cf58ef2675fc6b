-------------------------- MODULE ProvisionProofs ---------------------------
(***************************************************************************)
(* Proofs about Provision, for every input, configuration and word size.   *)
(***************************************************************************)
EXTENDS Provision, TLAPS

\* A record that Validate and the defaults have made.
Sound(srv) ==
  /\ srv \in Body /\ srv.type \in Types /\ srv.version # NoText
  /\ srv.provider \in {NoText, "modrinth", "curseforge"}
  /\ srv.provider # NoText => srv.pack # NoText

\* The variables of a record's container other than MOTD and KEY: those that
\* neither a rename nor a restart can change.
Keys(srv) ==
  {"MEMORY", "TYPE"} \cup (IF srv.provider = NoText THEN {"VERSION"} ELSE {"PACK"})

KeptOf(srv, k) ==
  CASE k = "MEMORY"  -> srv.memory
    [] k = "TYPE"    -> IF srv.provider = NoText THEN srv.type
                        ELSE IF srv.provider = "modrinth" THEN "MODRINTH"
                        ELSE "AUTO_CURSEFORGE"
    [] k = "VERSION" -> srv.version
    [] k = "PACK"    -> srv.pack

\* A container that was made from the record, whatever the configuration and
\* the name were then.
MadeFrom(c, srv) ==
  /\ DOMAIN c.env \ {"MOTD", "KEY"} = Keys(srv)
  /\ \A k \in Keys(srv) : c.env[k] = KeptOf(srv, k)
  /\ c.limits = BuildResources(srv)

\* The inductive invariant: the container and its history come from the record.
Inv ==
  /\ cfg \in Config
  /\ row # None => Sound(row)
  /\ container # None => first # None
  /\ container # None => row # None /\ MadeFrom(container, row)
  /\ first # None => row # None /\ MadeFrom(first, row)
-----------------------------------------------------------------------------
(* The operators. *)

LEMMA TextsAreTold ==
  /\ "VANILLA" # NoText /\ "LATEST" # NoText /\ "MODRINTH" # NoText
  /\ "AUTO_CURSEFORGE" # NoText /\ "modrinth" # NoText /\ "curseforge" # NoText
BY Zenon DEF NoText

\* An integer that fits in a word is left as it is (parseSize, minecraft.go:337).
LEMMA WordKeeps ==
  ASSUME NEW i \in Int, -HalfWord <= i, i <= MaxWord
  PROVE  Word(i) = i
<1>1. HalfWord \in Nat \ {0}
  BY WordAssumption
<1>2. i + HalfWord \in 0 .. 2 * HalfWord - 1
  BY <1>1 DEF MaxWord
<1>3. (i + HalfWord) % (2 * HalfWord) = i + HalfWord
  BY <1>1, <1>2
<1> QED
  BY <1>1, <1>3 DEF Word

\* Validate and the defaults make a sound record.
LEMMA NewRowSound ==
  ASSUME cfg \in Config, NEW in \in Body, Valid(in)
  PROVE  Sound(NewRow(in))
<1>1. /\ OrElse(in.type, "VANILLA") \in Types
      /\ OrElse(in.type, "VANILLA") \in Texts
      /\ OrElse(in.version, "LATEST") \in Texts
      /\ OrElse(in.version, "LATEST") # NoText
  <2>1. in.type \in Types \cup {NoText} /\ in.type \in Texts /\ in.version \in Texts
    BY DEF Valid, Body
  <2>2. Types \subseteq Texts /\ "VANILLA" \in Types /\ "LATEST" \in Texts
    BY TextAssumption
  <2> QED
    BY <2>1, <2>2, TextsAreTold DEF OrElse
<1>2. /\ cfg.memory \in Size /\ cfg.cpu \in Int /\ in.memory \in Size /\ in.cpu \in Int
      /\ in.name \in Texts /\ in.provider \in Texts /\ in.pack \in Texts
  BY DEF Body, Config
<1>3. NewRow(in) \in Body
  BY <1>1, <1>2 DEF NewRow, Body
<1>4. /\ NewRow(in).type = OrElse(in.type, "VANILLA")
      /\ NewRow(in).version = OrElse(in.version, "LATEST")
      /\ NewRow(in).provider = in.provider /\ NewRow(in).pack = in.pack
  BY DEF NewRow
<1> QED
  BY <1>1, <1>3, <1>4 DEF Sound, Valid, Blank

\* buildEnv on the six variables: the empty ones go, the heap always stays.
Vars == {"TYPE", "PACK", "KEY", "VERSION", "MEMORY", "MOTD"}

LEMMA EnvSets ==
  ASSUME NEW srv, NEW type, NEW pack, NEW key, NEW version,
         PackEnv(srv) = Env(srv, type, pack, key, version)
  PROVE  /\ DOMAIN BuildEnv(srv) \subseteq Vars
         /\ \A k \in DOMAIN BuildEnv(srv) :
              BuildEnv(srv)[k] = Env(srv, type, pack, key, version)[k]
         /\ \A k \in Vars :
              k \in DOMAIN BuildEnv(srv)
                <=> k = "MEMORY" \/ Env(srv, type, pack, key, version)[k] # NoText
<1>1. DOMAIN Env(srv, type, pack, key, version) = Vars
  BY DEF Env, Vars
<1> QED
  BY <1>1 DEF BuildEnv

LEMMA EnvValues ==
  ASSUME NEW srv, NEW type, NEW pack, NEW key, NEW version
  PROVE  LET env == Env(srv, type, pack, key, version)
         IN  /\ env["TYPE"] = type /\ env["PACK"] = pack /\ env["KEY"] = key
             /\ env["VERSION"] = version /\ env["MEMORY"] = srv.memory
BY DEF Env

\* What buildEnv sets for a sound record.
LEMMA EnvOfRecord ==
  ASSUME NEW srv, Sound(srv)
  PROVE  /\ DOMAIN BuildEnv(srv) \ {"MOTD", "KEY"} = Keys(srv)
         /\ \A k \in Keys(srv) : BuildEnv(srv)[k] = KeptOf(srv, k)
<1>1. srv.type # NoText /\ srv.version # NoText /\ (srv.provider # NoText => srv.pack # NoText)
  BY TextAssumption DEF Sound
<1>2. CASE srv.provider = NoText
  <2>1. PackEnv(srv) = Env(srv, srv.type, NoText, NoText, srv.version)
    BY <1>2, TextsAreTold DEF PackEnv
  <2>2. DOMAIN BuildEnv(srv) \ {"MOTD", "KEY"} = {"MEMORY", "TYPE", "VERSION"}
    <3>1. /\ DOMAIN BuildEnv(srv) \subseteq Vars
          /\ \A k \in Vars : k \in DOMAIN BuildEnv(srv) <=>
               k = "MEMORY" \/ Env(srv, srv.type, NoText, NoText, srv.version)[k] # NoText
      BY <2>1, EnvSets
    <3>2. /\ "TYPE" \in DOMAIN BuildEnv(srv) /\ "VERSION" \in DOMAIN BuildEnv(srv)
          /\ "PACK" \notin DOMAIN BuildEnv(srv) /\ "MEMORY" \in DOMAIN BuildEnv(srv)
      BY <1>1, <3>1, EnvValues DEF Vars
    <3> QED
      BY <3>1, <3>2 DEF Vars
  <2>3. /\ BuildEnv(srv)["MEMORY"] = srv.memory /\ BuildEnv(srv)["TYPE"] = srv.type
        /\ BuildEnv(srv)["VERSION"] = srv.version
    <3>1. \A k \in {"MEMORY", "TYPE", "VERSION"} :
            BuildEnv(srv)[k] = Env(srv, srv.type, NoText, NoText, srv.version)[k]
      BY <2>1, <2>2, EnvSets
    <3> QED
      BY <3>1, EnvValues
  <2> QED
    BY <1>2, <2>2, <2>3 DEF Keys, KeptOf
<1>3. ASSUME NEW type \in {"MODRINTH", "AUTO_CURSEFORGE"}, NEW key,
             srv.provider # NoText, type = KeptOf(srv, "TYPE"),
             PackEnv(srv) = Env(srv, type, srv.pack, key, NoText)
      PROVE  /\ DOMAIN BuildEnv(srv) \ {"MOTD", "KEY"} = Keys(srv)
             /\ \A k \in Keys(srv) : BuildEnv(srv)[k] = KeptOf(srv, k)
  <2>1. DOMAIN BuildEnv(srv) \ {"MOTD", "KEY"} = {"MEMORY", "TYPE", "PACK"}
    <3>1. /\ DOMAIN BuildEnv(srv) \subseteq Vars
          /\ \A k \in Vars : k \in DOMAIN BuildEnv(srv) <=>
               k = "MEMORY" \/ Env(srv, type, srv.pack, key, NoText)[k] # NoText
      BY <1>3, EnvSets
    <3>2. /\ "TYPE" \in DOMAIN BuildEnv(srv) /\ "VERSION" \notin DOMAIN BuildEnv(srv)
          /\ "PACK" \in DOMAIN BuildEnv(srv) /\ "MEMORY" \in DOMAIN BuildEnv(srv)
      BY <1>1, <1>3, <3>1, EnvValues, TextsAreTold DEF Vars
    <3> QED
      BY <3>1, <3>2 DEF Vars
  <2>2. /\ BuildEnv(srv)["MEMORY"] = srv.memory /\ BuildEnv(srv)["TYPE"] = type
        /\ BuildEnv(srv)["PACK"] = srv.pack
    <3>1. \A k \in {"MEMORY", "TYPE", "PACK"} :
            BuildEnv(srv)[k] = Env(srv, type, srv.pack, key, NoText)[k]
      BY <1>3, <2>1, EnvSets
    <3> QED
      BY <3>1, EnvValues
  <2> QED
    BY <1>3, <2>1, <2>2 DEF Keys, KeptOf
<1>4. CASE srv.provider = "modrinth"
  BY <1>3, <1>4, TextsAreTold DEF PackEnv, KeptOf
<1>5. CASE srv.provider = "curseforge"
  BY <1>3, <1>5, TextsAreTold DEF PackEnv, KeptOf
<1> QED
  BY <1>2, <1>4, <1>5 DEF Sound

\* A rename changes nothing the container was made from.
LEMMA RenameKeeps ==
  ASSUME NEW srv, Sound(srv), NEW name \in Texts
  PROVE  LET new == [srv EXCEPT !.name = name]
         IN  /\ Sound(new)
             /\ \A c : MadeFrom(c, srv) => MadeFrom(c, new)
<1> PICK new : new = [srv EXCEPT !.name = name]
  OBVIOUS
<1>1. new \in Body
  BY DEF Sound, Body
<1>2. /\ new.type = srv.type /\ new.version = srv.version /\ new.memory = srv.memory
      /\ new.provider = srv.provider /\ new.pack = srv.pack /\ new.cpu = srv.cpu
  BY DEF Sound, Body
<1>3. Sound(new)
  BY <1>1, <1>2 DEF Sound
<1>4. Keys(new) = Keys(srv) /\ \A k : KeptOf(new, k) = KeptOf(srv, k)
  BY <1>2 DEF Keys, KeptOf
<1>5. BuildResources(new) = BuildResources(srv)
  BY <1>2 DEF BuildResources
<1> QED
  BY <1>3, <1>4, <1>5 DEF MadeFrom
-----------------------------------------------------------------------------
(* The inductive invariant. *)

LEMMA MakeContainerInv ==
  ASSUME NEW srv, Sound(srv), row' = srv, row' # None, cfg' = cfg, cfg \in Config,
         container # None => first # None /\ MadeFrom(container, srv),
         first # None => MadeFrom(first, srv),
         MakeContainer(srv)
  PROVE  Inv'
<1>1. MadeFrom(ContainerFor(srv), srv)
  BY EnvOfRecord DEF ContainerFor, MadeFrom
<1>2. ASSUME NEW c PROVE MadeFrom(c, row)' <=> MadeFrom(c, srv)
  BY DEF MadeFrom, BuildResources
<1>3. CASE UNCHANGED <<container, first>>
  BY <1>2, <1>3 DEF Inv, Sound
<1>4. CASE container' = ContainerFor(srv)
           /\ first' = IF first = None THEN container' ELSE first
  BY <1>1, <1>2, <1>4 DEF Inv, Sound
<1> QED
  BY <1>3, <1>4 DEF MakeContainer

LEMMA InvInductive ==
  ASSUME Inv, [Next]_vars
  PROVE  Inv'
<1>1. CASE UNCHANGED vars
  BY <1>1 DEF vars, Inv, Sound, MadeFrom, BuildResources
<1>2. ASSUME NEW in \in Inputs, Create(in)
      PROVE  Inv'
  <2>1. in \in Body /\ cfg \in Config /\ row = None /\ Valid(in)
    BY <1>2, InputAssumption DEF Create, Inv
  <2>2. Sound(NewRow(in)) /\ row' = NewRow(in) /\ row' # None
    BY <1>2, <2>1, NewRowSound, NoneAssumption DEF Create, Sound
  <2> QED
    BY <1>2, <2>1, <2>2, MakeContainerInv DEF Create, Inv
<1>3. ASSUME NEW name \in Names, Rename(name)
      PROVE  Inv'
  <2>1. /\ name \in Texts /\ row # None /\ row' = [row EXCEPT !.name = name]
        /\ UNCHANGED <<cfg, container, first>>
    BY <1>3, TextAssumption DEF Rename
  <2>2. Sound(row') /\ \A c : MadeFrom(c, row) => MadeFrom(c, row')
    BY <2>1, RenameKeeps DEF Inv
  <2>3. row' # None
    BY <2>2, NoneAssumption DEF Sound
  <2> QED
    BY <2>1, <2>2, <2>3 DEF Inv, Sound, MadeFrom, BuildResources
<1>4. CASE Start
  BY <1>4, MakeContainerInv DEF Start, Inv
<1>5. CASE ContainerLost
  BY <1>5 DEF ContainerLost, Inv, Sound, MadeFrom, BuildResources
<1>6. ASSUME NEW c \in Configs, Restart(c)
      PROVE  Inv'
  BY <1>6, InputAssumption DEF Restart, Inv, Sound, MadeFrom, BuildResources
<1> QED
  BY <1>1, <1>2, <1>3, <1>4, <1>5, <1>6 DEF Next

LEMMA AlwaysInv == Spec => []Inv
<1>1. Init => Inv
  BY InputAssumption DEF Init, Inv
<1> QED
  BY <1>1, InvInductive, PTL DEF Spec
-----------------------------------------------------------------------------
(* The theorems. *)

\* A container that was lost is made again as it was created, but for the name
\* and the key, whatever the defaults have become (servers.go:195, :323).
THEOREM ContainersAreMadeAgain == Spec => []MadeAgainTheSame
<1>1. Inv => MadeAgainTheSame
  <2> SUFFICES ASSUME Inv, container # None
               PROVE  MadeAgainTheSame
    BY DEF MadeAgainTheSame
  <2>1. MadeFrom(container, row) /\ MadeFrom(first, row)
    BY DEF Inv
  <2> DEFINE kept(c) == [k \in DOMAIN c.env \ {"MOTD", "KEY"} |-> c.env[k]]
  <2>2. /\ kept(container) = [k \in Keys(row) |-> KeptOf(row, k)]
        /\ kept(first) = [k \in Keys(row) |-> KeptOf(row, k)]
    BY <2>1 DEF MadeFrom
  <2> QED
    BY <2>1, <2>2 DEF MadeFrom, MadeAgainTheSame
<1> QED
  BY <1>1, AlwaysInv, PTL

\* A heap that fits with its headroom gets exactly that as the container's limit:
\* deriveMemoryLimit neither wraps nor drops it (minecraft.go:303-338).
THEOREM CapsHoldTheHeap == Spec => []CapHoldsTheHeap
<1>1. Inv => CapHoldsTheHeap
  <2> SUFFICES ASSUME Inv, container # None
               PROVE  CapHoldsTheHeap
    BY DEF CapHoldsTheHeap
  <2>1. PICK size : size = row.memory
    OBVIOUS
  <2>2. PICK heap : heap = size.amount * Bytes[size.unit]
    OBVIOUS
  <2>3. MadeFrom(container, row) /\ Sound(row) /\ size \in Size
    BY <2>1 DEF Inv, Sound, Body
  <2>4. /\ container.env["MEMORY"] = size
        /\ container.limits.memory = DeriveMemoryLimit(size)
    BY <2>1, <2>3 DEF MadeFrom, Keys, KeptOf, BuildResources
  <2>5. HalfWord \in Nat \ {0} /\ Headroom \in Nat \ {0} /\ heap \in Int
    BY <2>2, <2>3, WordAssumption DEF Size, Headroom, Units
  <2>6. ASSUME ~Malformed(size), heap > 0, heap + Headroom <= MaxWord
        PROVE  DeriveMemoryLimit(size) = heap + Headroom
    <3>1. /\ heap + Headroom \in Int /\ -HalfWord <= heap /\ heap <= MaxWord
          /\ -HalfWord <= heap + Headroom
      BY <2>5, <2>6 DEF MaxWord
    <3>2. ParseSize(size) = heap
      BY <2>2, <2>5, <3>1, WordKeeps DEF ParseSize
    <3>3. Word(heap + Headroom) = heap + Headroom
      BY <2>6, <3>1, WordKeeps
    <3> QED
      BY <2>5, <2>6, <3>2, <3>3 DEF DeriveMemoryLimit
  <2> QED
    BY <2>2, <2>4, <2>6 DEF CapHoldsTheHeap
<1> QED
  BY <1>1, AlwaysInv, PTL

\* A container runs a pack or a version, never both and never neither
\* (buildEnv, minecraft.go:257-270).
THEOREM PacksExcludeVersions == Spec => []PackOrVersion
<1>1. Inv => PackOrVersion
  <2> SUFFICES ASSUME Inv, container # None
               PROVE  PackOrVersion
    BY DEF PackOrVersion
  <2>1. MadeFrom(container, row) /\ Sound(row)
    BY DEF Inv
  <2>2. CASE row.provider = NoText
    <3>1. /\ "VERSION" \in DOMAIN container.env /\ "PACK" \notin DOMAIN container.env
          /\ container.env["TYPE"] = row.type
      BY <2>1, <2>2 DEF MadeFrom, Keys, KeptOf
    <3> QED
      BY <2>1, <3>1 DEF PackOrVersion, Sound
  <2>3. CASE row.provider # NoText
    <3>1. /\ "VERSION" \notin DOMAIN container.env /\ "PACK" \in DOMAIN container.env
          /\ container.env["TYPE"] \in {"MODRINTH", "AUTO_CURSEFORGE"}
      BY <2>1, <2>3 DEF MadeFrom, Keys, KeptOf
    <3> QED
      BY <3>1, TextAssumption DEF PackOrVersion
  <2> QED
    BY <2>2, <2>3
<1> QED
  BY <1>1, AlwaysInv, PTL
=============================================================================
