----------------------------- MODULE ConfigSeed -----------------------------
(* The first-run configuration krayt seeds into a sandbox before the agent     *)
(* starts: defaults merged into what the image already has in that file.  A    *)
(* JSON value is [scalar |-> s], [array |-> sequence] or [object |-> map]; a   *)
(* map has Missing for the fields an object does not have.                     *)
EXTENDS Naturals, Sequences, SequencesExt, Calculation

CONSTANTS
  Field,   \* the names of fields
  Scalar,  \* strings, numbers, booleans and null; "wide" is an integer of more than 53 bits
  Depth    \* how deep a value may be nested

ConfigSeedAssumption == Depth \in Nat \ {0} /\ {"wide", "rounded"} \subseteq Scalar

Missing == [missing |-> "field"]

OrMissing(S) == S \cup {Missing}

\* The values nested no deeper than n.
Values[n \in 0 .. Depth] ==
  IF n = 0 THEN [scalar : Scalar]
  ELSE [scalar : Scalar] \cup [array : Seq(Values[n - 1])]
         \cup [object : [Field -> OrMissing(Values[n - 1])]]

IsArray(v)  == "array" \in DOMAIN v
IsObject(v) == "object" \in DOMAIN v

-----------------------------------------------------------------------------
(* The merge. *)

AppendNew(array, d) == IF Contains(array, d) THEN array ELSE Append(array, d)

\* Elements of the defaults the existing array lacks, after its own.
MergeArray(existing, defaults) ==
  LET merged[n \in 0 .. Len(defaults)] ==
        IF n = 0 THEN existing ELSE AppendNew(merged[n - 1], defaults[n])
  IN merged[Len(defaults)]

Lacking_OrNull(e) == e \in {Missing, [scalar |-> "null"]}
Lacking(e) == e = Missing

\* What is there wins, unless both are objects or both are arrays.
Merging[n \in 0 .. Depth] ==
  [e \in OrMissing(Values[n]) |-> [d \in OrMissing(Values[n]) |->
     IF d = Missing THEN e
     ELSE IF Lacking(e) THEN d
     ELSE IF IsObject(e) /\ IsObject(d)
       THEN [object |-> [k \in Field |-> Merging[n - 1][e.object[k]][d.object[k]]]]
     ELSE IF IsArray(e) /\ IsArray(d) THEN [array |-> MergeArray(e.array, d.array)]
     ELSE e]]

Merge(existing, defaults) == Merging[Depth][existing][defaults]

\* json.Unmarshal into any reads a number as a float64: an integer wider than
\* 53 bits is another one afterwards.
Decoding[n \in 0 .. Depth] ==
  [v \in OrMissing(Values[n]) |->
     IF IsObject(v) THEN [object |-> [k \in Field |-> Decoding[n - 1][v.object[k]]]]
     ELSE IF IsArray(v) THEN [array |-> [i \in DOMAIN v.array |-> Decoding[n - 1][v.array[i]]]]
     ELSE IF v = [scalar |-> "wide"] THEN [scalar |-> "rounded"] ELSE v]

Decode(v) == Decoding[Depth][v]

-----------------------------------------------------------------------------
(* One seed. The file in the guest is missing, in a directory that cannot be   *)
(* resolved, unreadable for the user, larger than maxConfigSeedFile, blank       *)
(* (empty, or nothing but white space), no JSON, or it holds a value.           *)

SeedFile ==
  [state : {"missing", "nowhere", "unreadable", "over", "blank", "invalid", "json"},
   value : Values[Depth]]

\* Any file, and defaults as krayt has them: an object without a number to round.
SeedInput ==
  [of : {"seed"}, file : SeedFile, writes : BOOLEAN,
   defaults : {d \in Values[Depth] : IsObject(d) /\ Decode(d) = d}]

\* readSeedFile and decodeObject: no file and no content are an object without fields.
NoContent(file) == file.state \in {"missing", "blank"}

SeedReadable(file) == NoContent(file) \/ (file.state = "json" /\ IsObject(file.value))

EmptyObject == [object |-> [k \in Field |-> Missing]]

Existing(file) == IF NoContent(file) THEN EmptyObject ELSE Decode(file.value)

\* writeSeedFile may fail (a full disk, a directory of another user), always
\* before the temporary file replaces the old one.
WriteSeedFile(file, merged, writes) ==
  IF writes THEN [file |-> [state |-> "json", value |-> merged], warned |-> 0]
  ELSE [file |-> file, warned |-> 1]

\* The file and the number of warnings after applyConfigSeed.
ApplyConfigSeed(file, defaults, writes) ==
  LET merged == Merge(Existing(file), defaults)
  IN IF ~SeedReadable(file) THEN [file |-> file, warned |-> 1]
     ELSE IF merged = Existing(file) THEN [file |-> file, warned |-> 0]
     ELSE WriteSeedFile(file, merged, writes)

-----------------------------------------------------------------------------
(* What it is for. *)

\* The pairs <<a, b>> such that nothing of a is changed or missing in b.
Kept[n \in 0 .. Depth] ==
  {p \in OrMissing(Values[n]) \X OrMissing(Values[n]) :
     LET a == p[1]
         b == p[2]
     IN \/ a = Missing \/ a = b
        \/ IsObject(a) /\ IsObject(b) /\ \A k \in Field : <<a.object[k], b.object[k]>> \in Kept[n - 1]
        \/ IsArray(a) /\ IsArray(b) /\ IsPrefix(a.array, b.array)}

\* The pairs <<d, b>> such that every default of d is in b, unless b has
\* something of another shape there.
Filled[n \in 0 .. Depth] ==
  {p \in OrMissing(Values[n]) \X OrMissing(Values[n]) :
     LET d == p[1]
         b == p[2]
     IN \/ d = Missing
        \/ /\ b # Missing
           /\ IsObject(d) /\ IsObject(b) => \A k \in Field : <<d.object[k], b.object[k]>> \in Filled[n - 1]
           /\ IsArray(d) /\ IsArray(b) => \A i \in DOMAIN d.array : Contains(b.array, d.array[i])}

\* (SeedHolds) Seeding adds every default that is missing and no other field, changes
\* nothing of what was read from the file (NothingOverwritten is about what was in it),
\* never replaces a file it could not read whole as an object, leaves one with nothing to
\* add as it is, and warns exactly when it could not do its work.  (applyConfigSeed,
\* configseed.Merge.)
SeedHolds ==
  input.of = "seed" =>
    LET file     == input.file
        defaults == input.defaults
        done  == ApplyConfigSeed(file, defaults, input.writes)
        whole == <<defaults, Existing(file)>> \in Filled[Depth]
    IN /\ done.warned = 1 <=> ~SeedReadable(file) \/ (~input.writes /\ ~whole)
       /\ ~SeedReadable(file) \/ whole => done.file = file
       /\ done.file # file => <<Existing(file), done.file.value>> \in Kept[Depth]
       /\ done.warned = 0 =>
            /\ <<defaults, Existing(done.file)>> \in Filled[Depth]
            /\ \A k \in Field :
                 Existing(done.file).object[k] = Missing
                   <=> Existing(file).object[k] = Missing /\ defaults.object[k] = Missing

\* Violated.  merge.go says that "nothing existing is ever overwritten".
NothingOverwritten ==
  input.of = "seed" =>
    LET file == input.file
        done == ApplyConfigSeed(file, input.defaults, input.writes)
    IN file.state = "json" => <<file.value, done.file.value>> \in Kept[Depth]
=============================================================================
