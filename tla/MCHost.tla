------------------------------- MODULE MCHost -------------------------------
(* Host with the commands, files, policies and inputs it is checked for.       *)
EXTENDS Integers, Host, MCConfigSeed, MCBundleShape, MCRunStart

ASSUME HostAssumption

\* The constant Limit: a run without a limit, one that wants to be alone, three that
\* share two slots.
MixedLimits == <<0, 1, 2, 2, 2>>

\* The constant Image.
OneImage == [r \in Runs |-> CHOOSE img \in Images : TRUE]

-----------------------------------------------------------------------------
(* Inputs of the calculations. *)

Labels(n) == UNION {[1 .. k -> {"a", "b"}] : k \in 1 .. n}
SomeHosts == {Host(l) : l \in Labels(4)}
               \cup [labels : {<<"a">>, <<"b", "a">>}, place : {"private", "meta", "dns"}]

Wild == Entry("leading", <<"b", "a">>)
Name == Entry("none", <<"b", "a">>)
Sub  == Entry("none", <<"a", "b", "a">>)
Addr == [Entry("none", <<"1">>) EXCEPT !.body = "ip4"]

SomeEntries ==
  {[Entry(star, l) EXCEPT !.padded = padded, !.upper = upper] :
     star \in {"none", "leading", "inner"}, l \in Labels(3), padded \in BOOLEAN, upper \in BOOLEAN}
  \cup {[Entry("bare", << >>) EXCEPT !.padded = padded] : padded \in BOOLEAN}
  \cup {Addr}

SomePolicies ==
  [mode : {"none", "full", "allowlist", "odd"}, mitm : BOOLEAN,
   allow : {{}, {Wild}, {Name, Sub}, {Sub, Addr}}, passthrough : {{}, {Sub}, {Wild}},
   secrets : {<< >>, <<[key |-> "k", hosts |-> {Name}]>>, <<[key |-> "k", hosts |-> {Wild}]>>,
              <<[key |-> "k", hosts |-> {Sub}], [key |-> "l", hosts |-> {Name}]>>}]

SomeKeySets == {{"nofile"}, {}, {"k"}, {"k", "l"}}

Strings == UNION {[1 .. n -> Char] : n \in 0 .. 7}
Secrets == {{<<"a", "b">>, <<"a">>}, {<<"a", "a">>}, {<<"a", "b">>, <<"b", "a", "b">>, << >>}}

Diffs == UNION {[1 .. n -> Line] : n \in 0 .. 4}

Sizes(units) == [n : 0 .. 20 \cup {31, 32}, unit : units]
FewSizes(unit) == [n : {1, 2, 4, 30, 31}, unit : {unit}]

SomeInputs ==
  [of : {"entries"}, a : SomeEntries, b : {e \in SomeEntries : ~e.padded /\ ~e.upper}]
  \cup [of : {"policy"}, np : SomePolicies, keys : SomeKeySets]
  \cup [of : {"text"}, text : Strings, values : Secrets]
  \cup [of : {"patch"}, diff : Diffs]
  \cup SeedInputs
  \cup BundleInputs
  \cup [of : {"sizes"}, memory : Sizes({"", "MiB", "GiB", "other"}), disk : FewSizes("GiB"),
        freeMem : {3, 9}, freeDisk : {0, 3, 15}]
  \cup [of : {"sizes"}, memory : FewSizes("MiB"), disk : Sizes({"", "MiB", "GiB", "other"}),
        freeMem : {0, 5, 15}, freeDisk : {4, 15}]

=============================================================================
