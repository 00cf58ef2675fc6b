---------------------------- MODULE MCProvision -----------------------------
(* The values provision.cfg gives Provision. *)
EXTENDS Provision, TLC

MCTexts == STRING
MCBytes == ("B" :> 1) @@ ("K" :> 2) @@ ("M" :> 4) @@ ("G" :> 8)

Heap(amount, unit) == [kind |-> "size", amount |-> amount, unit |-> unit]
NoSize(kind) == [kind |-> kind, amount |-> 0, unit |-> "B"]

\* Words are -128 .. 127 and a G is 8: 14G fits with its headroom and 15G does
\* not; 16G wraps to a negative word, 32G to 0, 33G to one G; -1G takes the
\* headroom to 0; 128 is no word.
Sizes == {NoSize("unset"), NoSize("malformed"), Heap(3, "B"), Heap(128, "B"),
          Heap(2, "M"), Heap(3, "K"), Heap(-1, "G")}
         \cup {Heap(n, "G") : n \in {0, 1, 14, 15, 16, 32, 33}}

Asked(type, version, provider, pack, memory, cpu) ==
  [name |-> "a", type |-> type, version |-> version, provider |-> provider,
   pack |-> pack, memory |-> memory, cpu |-> cpu]

\* Every mix of type, version and pack, and every size and cap.
MCInputs ==
  {Asked(t, v, p, k, NoSize("unset"), 0) :
     t \in {"", "FABRIC", "BUKKIT"}, v \in {"", "1.21"},
     p \in {"", "modrinth", "curseforge", "ftb"}, k \in {"", "pack"}}
  \cup {Asked("", "", "", "", m, c) : m \in Sizes, c \in -1 .. 1}

MCConfigs == {[memory |-> Heap(2, "G"), cpu |-> 2, key |-> "key"],
              [memory |-> Heap(1, "G"), cpu |-> 0, key |-> ""]}
=============================================================================
