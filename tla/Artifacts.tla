----------------------------- MODULE Artifacts ------------------------------
(* What a run leaves for a person to read: logs and transcripts with the       *)
(* secrets taken out, and the scan of changes.patch for secrets.               *)
(* A text is a sequence of characters; a secret's value is one without a line  *)
(* break (secrets.Load reads lines), none of them part of the marker.          *)
EXTENDS Naturals, Sequences, FiniteSets, Calculation

CONSTANTS
  Char,    \* the characters of texts
  MaxLen,  \* maxTranscriptFile
  HeadLen  \* transcriptHeadBytes

NewLine == "n"
Marker  == "[REDACTED]"
Elision == "... krayt elided bytes of transcript ..."

ArtifactsAssumption ==
  /\ Marker \notin Char /\ Elision \notin Char
  /\ MaxLen \in Nat /\ HeadLen \in 1 .. MaxLen - 1

\* Any text, and any secrets file.
TextInput == [of : {"text"}, text : Seq(Char),
              values : {V \in SUBSET Seq(Char \ {NewLine}) : IsFiniteSet(V)}]

-----------------------------------------------------------------------------
(* Redaction. *)

OccursAt(v, text, i) ==
  i + Len(v) - 1 <= Len(text) /\ \A k \in 1 .. Len(v) : text[i + k - 1] = v[k]

Occurs(v, text) == \E i \in 1 .. Len(text) : OccursAt(v, text, i)

\* bytes.ReplaceAll: from the left, occurrences that do not overlap.  Its state:
\* what is written, and how much of an occurrence is still to be passed over.
ReplaceChar(st, text, v, n) ==
  IF st.skip > 0 THEN [st EXCEPT !.skip = st.skip - 1]
  ELSE IF OccursAt(v, text, n) THEN [out |-> Append(st.out, Marker), skip |-> Len(v) - 1]
  ELSE [st EXCEPT !.out = Append(st.out, text[n])]

Replacing(text, v) ==
  LET st[n \in 0 .. Len(text)] ==
        IF n = 0 THEN [out |-> << >>, skip |-> 0] ELSE ReplaceChar(st[n - 1], text, v, n)
  IN st

ReplaceValue(text, v) == Replacing(text, v)[Len(text)].out

NewRedactor_AnyOrder(values) ==
  LET vs == values \ {<< >>}
  IN {red \in [1 .. Cardinality(vs) -> vs] : \A v \in vs : \E i \in DOMAIN red : red[i] = v}

\* What NewRedactor may keep: no empty value, no value twice, longest first; two
\* of one length in either order (it gets them from a map).
NewRedactor(values) ==
  LET vs == values \ {<< >>}
  IN {red \in [1 .. Cardinality(vs) -> vs] :
        /\ \A v \in vs : \E i \in DOMAIN red : red[i] = v
        /\ \A i, j \in DOMAIN red : i < j => Len(red[i]) >= Len(red[j])}

\* The text after each of the values.
Redacting(text, red) ==
  LET t[k \in 0 .. Len(red)] == IF k = 0 THEN text ELSE ReplaceValue(t[k - 1], red[k])
  IN t

Redact(text, red) == Redacting(text, red)[Len(red)]

\* The values that are in an artifact that cannot be rewritten.
ScanKeys(values, text) == {v \in values \ {<< >>} : Occurs(v, text)}

-----------------------------------------------------------------------------
(* Size caps. *)

HeadOf(text) == SubSeq(text, 1, HeadLen)
TailOf(text) == SubSeq(text, Len(text) - (MaxLen - HeadLen) + 1, Len(text))

ElideMiddle_Blind(text) ==
  IF Len(text) <= MaxLen THEN text ELSE HeadOf(text) \o <<Elision>> \o TailOf(text)

\* The head without its last, broken line and the tail without its first one,
\* when that leaves something of them.
CutHead(h) ==
  LET ends == {i \in DOMAIN h : h[i] = NewLine /\ i > 1}
  IN IF ends = {} THEN h ELSE SubSeq(h, 1, CHOOSE i \in ends : \A j \in ends : j <= i)

CutTail(t) ==
  LET ends == {i \in DOMAIN t : t[i] = NewLine}
      first == CHOOSE i \in ends : \A j \in ends : i <= j
  IN IF ends = {} \/ first = Len(t) THEN t ELSE SubSeq(t, first + 1, Len(t))

ElideMiddle(text) ==
  IF Len(text) <= MaxLen THEN text ELSE CutHead(HeadOf(text)) \o <<Elision>> \o CutTail(TailOf(text))

\* A transcript file as writeTranscript leaves it on the host.
WriteTranscript(text, red) == Redact(ElideMiddle(text), red)

-----------------------------------------------------------------------------
(* Properties. *)

\* The cut of a long text falls on line breaks.
CutAtLines(text) ==
  /\ \E i \in 2 .. HeadLen : text[i] = NewLine
  /\ \E i \in 1 .. MaxLen - HeadLen - 1 : TailOf(text)[i] = NewLine

\* kept is out but for a stretch that krayt says it left out.
WithoutStretch(out, kept) ==
  \E i, j \in 0 .. Len(out) :
    i <= j /\ kept = SubSeq(out, 1, i) \o <<Elision>> \o SubSeq(out, j + 1, Len(out))

\* (RedactionHolds) No secret is left whole in what is written, not even one that
\* appears only when another has been taken out; the scan of the patch reports
\* exactly when there is something to take out; and a long transcript that can be
\* cut at lines is the redacted file without a stretch: the cut, made before the
\* redaction, halves no secret. (Redactor, ScanKeys, writeTranscript.)
RedactionHolds ==
  input.of = "text" => \A red \in NewRedactor(input.values) :
    LET text == input.text
        out  == Redact(text, red)
        kept == WriteTranscript(text, red)
    IN /\ \A v \in input.values \ {<< >>} : ~Occurs(v, out)
       /\ ScanKeys(input.values, text) = {} <=> out = text
       /\ Len(text) <= MaxLen => kept = out
       /\ Len(text) > MaxLen /\ CutAtLines(text) => WithoutStretch(out, kept)

\* The characters of text that belong to no occurrence of a value.
Uncovered(text, values) ==
  {k \in DOMAIN text : \A v \in values \ {<< >>} : \A i \in DOMAIN text :
     OccursAt(v, text, i) => k < i \/ k > i + Len(v) - 1}

\* Where an occurrence begins that none which began before it reaches.
Outermost(text, values) ==
  {k \in DOMAIN text :
     /\ \E v \in values \ {<< >>} : OccursAt(v, text, k)
     /\ \A v \in values \ {<< >>}, i \in 1 .. k - 1 : OccursAt(v, text, i) => k > i + Len(v) - 1}

\* Two occurrences that share characters, neither inside the other.
Tangled(text, values) ==
  \E v, w \in values \ {<< >>} : \E i, j \in DOMAIN text :
     /\ OccursAt(v, text, i) /\ OccursAt(w, text, j)
     /\ i < j /\ j <= i + Len(v) - 1 /\ i + Len(v) < j + Len(w)

\* How many of the numbers in S there are up to k.
Rank(S, k) == Cardinality({j \in S : j <= k})

\* (RestStays) Unless occurrences are tangled, what is left is the text itself in which
\* one marker stands for each occurrence that is inside no other: a secret inside another
\* one leaves no remainder of the longer one, and nothing that is not part of a secret is
\* lost, moved or marked.  (NewRedactor, Redact.)
RestStays ==
  input.of = "text" => \A red \in NewRedactor(input.values) :
    LET text  == input.text
        out   == Redact(text, red)
        clear == Uncovered(text, input.values)
        left  == clear \cup Outermost(text, input.values)
    IN ~Tangled(text, input.values) =>
         /\ Len(out) = Cardinality(left)
         /\ \A k \in left : out[Rank(left, k)] = IF k \in clear THEN text[k] ELSE Marker
=============================================================================
