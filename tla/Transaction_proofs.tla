------------------------- MODULE Transaction_proofs -------------------------
(***************************************************************************)
(* Proofs about Transaction, for any objects and any sizes of the stacks:  *)
(* a jump lands in an open construct, the level counts the transactions    *)
(* that are still to end, and so nothing is deleted too early or left, nor *)
(* is memory cut back that an object is in.                                *)
(***************************************************************************)
EXTENDS Transaction, FiniteSetTheorems, WellFoundedInduction, TLAPS

\* The types of the two stacks.
StackTypes == frames \in Seq(Frame) /\ buffers \in Seq(Nat)

\* Only the handler of start_transaction passes errors on, from the top of the
\* stack; whoever runs its handler or its end has no buffer any more.
PhaseInv ==
    \A k \in DOMAIN frames :
        /\ frames[k].kind = "try" => frames[k].phase = "body"
        /\ frames[k].phase # "body" => ~frames[k].pushed
        /\ frames[k].phase = "rethrow" => k = Top

StackInv == StackTypes /\ HandlersLive /\ PhaseInv

-----------------------------------------------------------------------------
(* Sequences. *)

LEMMA CutFacts ==
    ASSUME NEW S, NEW s \in Seq(S), NEW n \in 0 .. Len(s)
    PROVE  /\ SubSeq(s, 1, n) \in Seq(S)
           /\ Len(SubSeq(s, 1, n)) = n
           /\ DOMAIN SubSeq(s, 1, n) = 1 .. n
           /\ \A i \in 1 .. n : SubSeq(s, 1, n)[i] = s[i]
OBVIOUS

\* A sequence that is not empty has a last element.
LEMMA LastFacts ==
    ASSUME NEW S, NEW s \in Seq(S), s # <<>>
    PROVE  /\ Len(s) \in Nat \ {0} /\ DOMAIN s = 1 .. Len(s)
           /\ Len(s) \in DOMAIN s /\ Last(s) = s[Len(s)] /\ Last(s) \in S
BY DEF Last

LEMMA FrontFacts ==
    ASSUME NEW S, NEW s \in Seq(S), s # <<>>
    PROVE  /\ Front(s) \in Seq(S)
           /\ Len(Front(s)) = Len(s) - 1
           /\ DOMAIN Front(s) = 1 .. Len(s) - 1
           /\ \A i \in 1 .. Len(s) - 1 : Front(s)[i] = s[i]
<1>1. Len(s) - 1 \in 0 .. Len(s)
    BY LastFacts
<1>2. Front(s) = SubSeq(s, 1, Len(s) - 1)
    BY DEF Front
<1> DEFINE n == Len(s) - 1
<1>3. n \in 0 .. Len(s) /\ Front(s) = SubSeq(s, 1, n)
    BY <1>1, <1>2
<1> HIDE DEF n
<1>4. /\ Front(s) \in Seq(S) /\ Len(Front(s)) = n /\ DOMAIN Front(s) = 1 .. n
      /\ \A i \in 1 .. n : Front(s)[i] = s[i]
    BY <1>3, CutFacts
<1>5. QED
    BY <1>4 DEF n

LEMMA AppendFacts ==
    ASSUME NEW S, NEW s \in Seq(S), NEW e \in S
    PROVE  /\ Append(s, e) \in Seq(S)
           /\ Len(Append(s, e)) = Len(s) + 1 /\ Len(s) \in Nat
           /\ DOMAIN Append(s, e) = 1 .. Len(s) + 1 /\ DOMAIN s = 1 .. Len(s)
           /\ \A i \in 1 .. Len(s) : Append(s, e)[i] = s[i]
           /\ Append(s, e)[Len(s) + 1] = e
OBVIOUS

LEMMA UpdateFacts ==
    ASSUME NEW S, NEW s \in Seq(S), NEW n \in 1 .. Len(s), NEW e \in S
    PROVE  /\ [s EXCEPT ![n] = e] \in Seq(S)
           /\ Len([s EXCEPT ![n] = e]) = Len(s)
           /\ DOMAIN [s EXCEPT ![n] = e] = 1 .. Len(s)
           /\ [s EXCEPT ![n] = e][n] = e
           /\ \A i \in 1 .. Len(s) : i # n => [s EXCEPT ![n] = e][i] = s[i]
OBVIOUS

\* A construct goes on in another phase.
LEMMA FrameFacts ==
    ASSUME NEW f \in Frame, NEW ph \in Phase
    PROVE  /\ [f EXCEPT !.phase = ph, !.pushed = FALSE] \in Frame
           /\ [f EXCEPT !.phase = ph, !.pushed = FALSE].kind = f.kind
           /\ [f EXCEPT !.phase = ph, !.pushed = FALSE].phase = ph
           /\ ~[f EXCEPT !.phase = ph, !.pushed = FALSE].pushed
BY DEF Frame

-----------------------------------------------------------------------------
(* What the steps do to the stacks. *)

\* The construct at the top has pushed the last buffer, if it has pushed any.
LEMMA TopBuffer ==
    ASSUME StackInv, frames # <<>>
    PROVE  /\ Top \in Nat \ {0} /\ DOMAIN frames = 1 .. Top /\ frames[Top] \in Frame
           /\ frames[Top].pushed => buffers # <<>> /\ buffers[Len(buffers)] = Top
<1>1. Top \in Nat \ {0} /\ DOMAIN frames = 1 .. Top /\ frames[Top] \in Frame
    BY LastFacts DEF StackInv, StackTypes, Top
<1>2. ASSUME frames[Top].pushed
      PROVE  buffers # <<>> /\ buffers[Len(buffers)] = Top
    <2>1. PICK i \in DOMAIN buffers : buffers[i] = Top
        BY <1>1, <1>2 DEF StackInv, HandlersLive
    <2>2. buffers # <<>> /\ Len(buffers) \in DOMAIN buffers /\ DOMAIN buffers = 1 .. Len(buffers)
        BY <2>1 DEF StackInv, StackTypes
    <2>3. buffers[Len(buffers)] \in 1 .. Top
        BY <1>1, <2>2 DEF StackInv, HandlersLive
    <2>4. i < Len(buffers) => Top < buffers[Len(buffers)]
        BY <2>1, <2>2 DEF StackInv, HandlersLive
    <2>5. QED
        BY <1>1, <2>1, <2>2, <2>3, <2>4
<1>3. QED
    BY <1>1, <1>2

LEMMA OpenStack ==
    ASSUME StackInv, NEW k \in Kind, NEW p \in BOOLEAN,
           frames = <<>> \/ frames[Top].phase # "rethrow",
           frames' = Opened(k, p), buffers' = Pushed(p)
    PROVE  /\ StackInv'
           /\ Top \in Nat /\ DOMAIN frames' = 1 .. Top + 1 /\ DOMAIN frames = 1 .. Top
           /\ \A i \in 1 .. Top : frames'[i] = frames[i]
           /\ frames'[Top + 1].kind = k /\ frames'[Top + 1].phase = "body"
<1> DEFINE f == [kind |-> k, pushed |-> p, phase |-> "body", doomed |-> {}]
<1>1. f \in Frame
    BY DEF Frame, Kind, Phase
<1>2. /\ frames' \in Seq(Frame) /\ Top' = Top + 1 /\ Top \in Nat
      /\ DOMAIN frames' = 1 .. Top + 1 /\ DOMAIN frames = 1 .. Top
      /\ \A i \in 1 .. Top : frames'[i] = frames[i]
      /\ frames'[Top + 1] = f
    BY <1>1, AppendFacts DEF Opened, StackInv, StackTypes, Top
<1>3. /\ f.kind = k /\ f.pushed = p /\ f.phase = "body"
    OBVIOUS
<1> HIDE DEF f
<1>4. PhaseInv'
    <2> SUFFICES ASSUME NEW j \in DOMAIN frames'
        PROVE  /\ frames'[j].kind = "try" => frames'[j].phase = "body"
               /\ frames'[j].phase # "body" => ~frames'[j].pushed
               /\ frames'[j].phase = "rethrow" => j = Top'
        BY DEF PhaseInv
    <2>1. CASE j = Top + 1
        BY <1>2, <1>3, <2>1
    <2>2. CASE j \in DOMAIN frames
        BY <1>2, <2>2 DEF StackInv, PhaseInv
    <2>3. QED
        BY <1>2, <2>1, <2>2
<1>5. buffers' \in Seq(Nat) /\ HandlersLive'
    <2>1. CASE p
        <3>1. /\ buffers' \in Seq(Nat) /\ Len(buffers) \in Nat
              /\ DOMAIN buffers' = 1 .. Len(buffers) + 1 /\ DOMAIN buffers = 1 .. Len(buffers)
              /\ \A i \in 1 .. Len(buffers) : buffers'[i] = buffers[i]
              /\ buffers'[Len(buffers) + 1] = Top + 1
            <4>1. Top + 1 \in Nat
                BY <1>2
            <4>2. buffers' = Append(buffers, Top + 1)
                BY <2>1 DEF Pushed
            <4>3. QED
                BY <4>1, <4>2, AppendFacts DEF StackInv, StackTypes
        <3>2. \A i \in DOMAIN buffers : buffers[i] \in 1 .. Top /\ frames[buffers[i]].pushed
            BY <1>2 DEF StackInv, HandlersLive
        <3>3. ASSUME NEW i \in DOMAIN buffers'
              PROVE  buffers'[i] \in DOMAIN frames' /\ frames'[buffers'[i]].pushed
            <4>1. CASE i = Len(buffers) + 1
                <5>1. buffers'[i] = Top + 1 /\ Top + 1 \in DOMAIN frames'
                    BY <1>2, <3>1, <4>1
                <5>2. frames'[Top + 1].pushed
                    BY <1>2, <1>3, <2>1, Zenon
                <5>3. QED
                    BY <5>1, <5>2, Zenon
            <4>2. CASE i \in DOMAIN buffers
                BY <1>2, <3>1, <3>2, <4>2
            <4>3. QED
                BY <3>1, <4>1, <4>2
        <3>4. ASSUME NEW i \in DOMAIN buffers', NEW j \in DOMAIN buffers', i < j
              PROVE  buffers'[i] < buffers'[j]
            <4>1. i \in DOMAIN buffers /\ buffers'[i] = buffers[i] /\ buffers[i] \in 1 .. Top
                BY <3>1, <3>2, <3>4
            <4>2. CASE j = Len(buffers) + 1
                BY <1>2, <3>1, <4>1, <4>2
            <4>3. CASE j \in DOMAIN buffers
                BY <3>1, <3>4, <4>1, <4>3 DEF StackInv, HandlersLive
            <4>4. QED
                BY <3>1, <4>2, <4>3
        <3>5. ASSUME NEW j \in DOMAIN frames', frames'[j].pushed
              PROVE  \E i \in DOMAIN buffers' : buffers'[i] = j
            <4>1. CASE j = Top + 1
                <5>1. Len(buffers) + 1 \in DOMAIN buffers'
                    BY <3>1
                <5>2. QED
                    BY <3>1, <4>1, <5>1
            <4>2. CASE j \in DOMAIN frames
                <5>1. frames'[j] = frames[j]
                    BY <1>2, <4>2
                <5>2. frames[j].pushed
                    BY <3>5, <5>1
                <5>3. PICK i \in DOMAIN buffers : buffers[i] = j
                    BY <4>2, <5>2 DEF StackInv, HandlersLive
                <5>4. i \in DOMAIN buffers' /\ buffers'[i] = j
                    BY <3>1, <5>3
                <5>5. QED
                    BY <5>4
            <4>3. QED
                BY <1>2, <4>1, <4>2
        <3>6. QED
            BY <3>1, <3>3, <3>4, <3>5 DEF HandlersLive
    <2>2. CASE ~p
        <3>1. buffers' = buffers
            BY <2>2 DEF Pushed
        <3>2. \A i \in DOMAIN buffers : buffers[i] \in 1 .. Top /\ frames[buffers[i]].pushed
            BY <1>2 DEF StackInv, HandlersLive
        <3>3. \A j \in DOMAIN frames' : frames'[j].pushed => j \in DOMAIN frames /\ frames[j].pushed
            BY <1>2, <1>3, <2>2
        <3>4. QED
            BY <1>2, <3>1, <3>2, <3>3 DEF StackInv, StackTypes, HandlersLive
    <2>3. QED
        BY <2>1, <2>2
<1>6. QED
    BY <1>2, <1>3, <1>4, <1>5 DEF StackInv, StackTypes

\* What Popped leaves: the buffers of the constructs below the top.
LEMMA PoppedFacts ==
    ASSUME StackInv, frames # <<>>, buffers' = Popped
    PROVE  /\ buffers' \in Seq(Nat) /\ DOMAIN buffers' \subseteq DOMAIN buffers
           /\ \A i \in DOMAIN buffers' : buffers'[i] = buffers[i] /\ buffers[i] \in 1 .. Top - 1
           /\ \A k \in 1 .. Top - 1 : frames[k].pushed => \E i \in DOMAIN buffers' : buffers'[i] = k
<1>1. Top \in Nat \ {0} /\ DOMAIN frames = 1 .. Top
    BY TopBuffer
<1>2. \A i \in DOMAIN buffers : buffers[i] \in 1 .. Top /\ frames[buffers[i]].pushed
    BY <1>1 DEF StackInv, HandlersLive
<1>3. CASE frames[Top].pushed
    <2>1. buffers # <<>> /\ buffers[Len(buffers)] = Top
        BY <1>3, TopBuffer
    <2>2. /\ buffers' \in Seq(Nat) /\ DOMAIN buffers' = 1 .. Len(buffers) - 1
          /\ \A i \in 1 .. Len(buffers) - 1 : buffers'[i] = buffers[i]
          /\ DOMAIN buffers = 1 .. Len(buffers) /\ Len(buffers) \in Nat \ {0}
        BY <1>3, <2>1, FrontFacts, LastFacts DEF Popped, StackInv, StackTypes
    <2>3. ASSUME NEW i \in DOMAIN buffers'
          PROVE  buffers[i] < Top
        <3>1. i \in DOMAIN buffers /\ Len(buffers) \in DOMAIN buffers /\ i < Len(buffers)
            BY <2>2
        <3>2. buffers[i] < buffers[Len(buffers)]
            BY <3>1 DEF StackInv, HandlersLive
        <3>3. QED
            BY <2>1, <3>2
    <2>4. ASSUME NEW k \in 1 .. Top - 1, frames[k].pushed
          PROVE  \E i \in DOMAIN buffers' : buffers'[i] = k
        <3>1. PICK i \in DOMAIN buffers : buffers[i] = k
            BY <1>1, <2>4 DEF StackInv, HandlersLive
        <3>2. i # Len(buffers)
            BY <1>1, <2>1, <3>1
        <3>3. QED
            BY <2>2, <3>1, <3>2
    <2>5. QED
        BY <1>1, <1>2, <2>2, <2>3, <2>4
<1>4. CASE ~frames[Top].pushed
    <2>1. buffers' = buffers
        BY <1>4 DEF Popped
    <2>2. \A i \in DOMAIN buffers : buffers[i] # Top
        BY <1>2, <1>4
    <2>3. \A k \in 1 .. Top - 1 : frames[k].pushed => \E i \in DOMAIN buffers : buffers[i] = k
        BY <1>1 DEF StackInv, HandlersLive
    <2>4. QED
        BY <1>1, <1>2, <2>1, <2>2, <2>3 DEF StackInv, StackTypes
<1>5. QED
    BY <1>3, <1>4

LEMMA CloseStack ==
    ASSUME StackInv, frames # <<>>, frames' = Front(frames), buffers' = Popped
    PROVE  /\ StackInv'
           /\ Top \in Nat \ {0} /\ DOMAIN frames' = 1 .. Top - 1 /\ DOMAIN frames = 1 .. Top
           /\ \A i \in 1 .. Top - 1 : frames'[i] = frames[i]
<1>1. Top \in Nat \ {0} /\ DOMAIN frames = 1 .. Top
    BY TopBuffer
<1>2. /\ frames' \in Seq(Frame) /\ DOMAIN frames' = 1 .. Top - 1
      /\ \A i \in 1 .. Top - 1 : frames'[i] = frames[i]
    BY FrontFacts DEF StackInv, StackTypes, Top
<1>3. PhaseInv'
    BY <1>1, <1>2 DEF StackInv, PhaseInv
<1>4. HandlersLive'
    <2>1. \A i \in DOMAIN buffers' : buffers'[i] \in DOMAIN frames' /\ frames'[buffers'[i]].pushed
        BY <1>1, <1>2, PoppedFacts DEF StackInv, HandlersLive
    <2>2. \A i, j \in DOMAIN buffers' : i < j => buffers'[i] < buffers'[j]
        BY PoppedFacts DEF StackInv, HandlersLive
    <2>3. \A k \in DOMAIN frames' : frames'[k].pushed => \E i \in DOMAIN buffers' : buffers'[i] = k
        BY <1>2, PoppedFacts
    <2>4. QED
        BY <2>1, <2>2, <2>3 DEF HandlersLive
<1>5. QED
    BY <1>1, <1>2, <1>3, <1>4, PoppedFacts DEF StackInv, StackTypes

\* The construct at the top begins to delete, without its buffer.
LEMMA EndStack ==
    ASSUME StackInv, frames # <<>>, frames[Top].kind # "try", buffers' = Popped,
           frames' = [frames EXCEPT ![Top].phase = "end", ![Top].pushed = FALSE]
    PROVE  /\ StackInv'
           /\ Top \in Nat \ {0} /\ DOMAIN frames' = 1 .. Top /\ DOMAIN frames = 1 .. Top
           /\ \A i \in 1 .. Top - 1 : frames'[i] = frames[i]
           /\ frames'[Top].kind = frames[Top].kind /\ frames'[Top].phase = "end"
<1>1. Top \in Nat \ {0} /\ DOMAIN frames = 1 .. Top /\ frames[Top] \in Frame
    BY TopBuffer
<1>2. /\ frames' \in Seq(Frame) /\ DOMAIN frames' = 1 .. Top /\ Top' = Top
      /\ \A i \in 1 .. Top - 1 : frames'[i] = frames[i]
      /\ frames'[Top].kind = frames[Top].kind /\ frames'[Top].phase = "end" /\ ~frames'[Top].pushed
    <2> DEFINE e == [frames[Top] EXCEPT !.phase = "end", !.pushed = FALSE]
    <2>1. frames' = [frames EXCEPT ![Top] = e]
        OBVIOUS
    <2>2. e \in Frame /\ e.kind = frames[Top].kind /\ e.phase = "end" /\ ~e.pushed
        BY <1>1, FrameFacts DEF Phase
    <2> HIDE DEF e
    <2>3. frames \in Seq(Frame) /\ Top \in 1 .. Len(frames)
        BY <1>1 DEF StackInv, StackTypes, Top
    <2>4. /\ [frames EXCEPT ![Top] = e] \in Seq(Frame)
          /\ Len([frames EXCEPT ![Top] = e]) = Len(frames)
          /\ DOMAIN [frames EXCEPT ![Top] = e] = 1 .. Len(frames)
          /\ [frames EXCEPT ![Top] = e][Top] = e
          /\ \A i \in 1 .. Len(frames) : i # Top => [frames EXCEPT ![Top] = e][i] = frames[i]
        BY ONLY <2>2, <2>3, UpdateFacts
    <2>5. frames' \in Seq(Frame) /\ DOMAIN frames' = 1 .. Top /\ Top' = Top /\ frames'[Top] = e
        BY <2>1, <2>4 DEF Top
    <2>6. \A i \in 1 .. Top - 1 : frames'[i] = frames[i]
        BY <1>1, <2>1, <2>4 DEF Top
    <2>7. QED
        BY <2>2, <2>5, <2>6, Zenon
<1>3. PhaseInv'
    BY <1>1, <1>2 DEF StackInv, PhaseInv
<1>4. HandlersLive'
    <2>1. \A i \in DOMAIN buffers' : buffers'[i] \in DOMAIN frames' /\ frames'[buffers'[i]].pushed
        BY <1>1, <1>2, PoppedFacts DEF StackInv, HandlersLive
    <2>2. \A i, j \in DOMAIN buffers' : i < j => buffers'[i] < buffers'[j]
        BY PoppedFacts DEF StackInv, HandlersLive
    <2>3. \A k \in DOMAIN frames' : frames'[k].pushed => \E i \in DOMAIN buffers' : buffers'[i] = k
        BY <1>1, <1>2, PoppedFacts
    <2>4. QED
        BY <2>1, <2>2, <2>3 DEF HandlersLive
<1>5. QED
    BY <1>1, <1>2, <1>3, <1>4, PoppedFacts DEF StackInv, StackTypes

\* The construct at the top goes on with its deletion, or is done with it.
LEMMA DeleteStack ==
    ASSUME StackInv, frames # <<>>, frames[Top].phase \in {"end", "abort"}, buffers' = buffers,
           NEW d \in SUBSET Object, NEW ph \in {frames[Top].phase, "rethrow"},
           frames' = [frames EXCEPT ![Top] = [@ EXCEPT !.phase = ph, !.doomed = d]]
    PROVE  /\ StackInv'
           /\ Top \in Nat \ {0} /\ DOMAIN frames' = 1 .. Top /\ DOMAIN frames = 1 .. Top
           /\ \A i \in 1 .. Top - 1 : frames'[i] = frames[i]
           /\ frames'[Top].kind = frames[Top].kind /\ frames'[Top].phase = ph
<1>1. Top \in Nat \ {0} /\ DOMAIN frames = 1 .. Top /\ frames[Top] \in Frame
    BY TopBuffer
<1>2. ph \in Phase
    BY <1>1 DEF Frame, Phase
<1>3. /\ frames' \in Seq(Frame) /\ DOMAIN frames' = 1 .. Top /\ Top' = Top
      /\ \A i \in 1 .. Top - 1 : frames'[i] = frames[i]
      /\ frames'[Top].kind = frames[Top].kind /\ frames'[Top].phase = ph
      /\ frames'[Top].pushed = frames[Top].pushed
    <2> DEFINE e == [frames[Top] EXCEPT !.phase = ph, !.doomed = d]
    <2>1. frames' = [frames EXCEPT ![Top] = e]
        OBVIOUS
    <2>2. e \in Frame /\ e.kind = frames[Top].kind /\ e.phase = ph /\ e.pushed = frames[Top].pushed
        BY <1>1, <1>2 DEF Frame
    <2> HIDE DEF e
    <2>3. frames \in Seq(Frame) /\ Top \in 1 .. Len(frames)
        BY <1>1 DEF StackInv, StackTypes, Top
    <2>4. /\ [frames EXCEPT ![Top] = e] \in Seq(Frame)
          /\ Len([frames EXCEPT ![Top] = e]) = Len(frames)
          /\ DOMAIN [frames EXCEPT ![Top] = e] = 1 .. Len(frames)
          /\ [frames EXCEPT ![Top] = e][Top] = e
          /\ \A i \in 1 .. Len(frames) : i # Top => [frames EXCEPT ![Top] = e][i] = frames[i]
        BY ONLY <2>2, <2>3, UpdateFacts
    <2>5. QED
        BY <1>1, <2>1, <2>2, <2>4 DEF Top
<1>4. \A k \in DOMAIN frames : frames'[k].pushed = frames[k].pushed
    BY <1>1, <1>3
<1>5. PhaseInv'
    BY <1>1, <1>3 DEF StackInv, PhaseInv
<1>6. HandlersLive'
    BY <1>1, <1>3, <1>4 DEF StackInv, HandlersLive
<1>7. QED
    BY <1>1, <1>3, <1>5, <1>6 DEF StackInv, StackTypes

LEMMA JumpStack ==
    ASSUME StackInv, buffers # <<>>, Jump
    PROVE  /\ StackInv'
           /\ Top \in Nat /\ DOMAIN frames = 1 .. Top /\ Target \in 1 .. Top
           /\ \A i \in 1 .. Target - 1 : frames'[i] = frames[i]
           /\ Caught => DOMAIN frames' = 1 .. Target - 1
           /\ ~Caught =>
                /\ DOMAIN frames' = 1 .. Target /\ Top' = Target
                /\ frames'[Target].kind = frames[Target].kind
                /\ frames'[Target].phase = IF level = 0 THEN "rethrow" ELSE "abort"
<1>1. Top \in Nat /\ DOMAIN frames = 1 .. Top
    BY DEF StackInv, StackTypes, Top
<1>2. /\ Len(buffers) \in Nat \ {0} /\ DOMAIN buffers = 1 .. Len(buffers)
      /\ Len(buffers) \in DOMAIN buffers /\ Target = buffers[Len(buffers)]
    BY LastFacts DEF StackInv, StackTypes, Target
<1>3. Target \in 1 .. Top /\ frames[Target].pushed /\ frames[Target].phase = "body"
    BY <1>1, <1>2 DEF StackInv, HandlersLive, PhaseInv
<1>4. /\ buffers' \in Seq(Nat) /\ DOMAIN buffers' = 1 .. Len(buffers) - 1
      /\ \A i \in 1 .. Len(buffers) - 1 : buffers'[i] = buffers[i]
    BY FrontFacts DEF Jump, StackInv, StackTypes
<1>5. ASSUME NEW i \in DOMAIN buffers'
      PROVE  buffers'[i] \in 1 .. Target - 1 /\ frames[buffers'[i]].pushed
    <2>1. i \in DOMAIN buffers /\ i < Len(buffers) /\ buffers'[i] = buffers[i]
        BY <1>2, <1>4
    <2>2. buffers[i] \in DOMAIN frames /\ frames[buffers[i]].pushed /\ buffers[i] < Target
        BY <1>2, <2>1 DEF StackInv, HandlersLive
    <2>3. QED
        BY <1>1, <1>3, <2>1, <2>2
<1>6. \A i, j \in DOMAIN buffers' : i < j => buffers'[i] < buffers'[j]
    BY <1>2, <1>4 DEF StackInv, HandlersLive
<1>7. ASSUME NEW k \in 1 .. Target - 1, frames[k].pushed
      PROVE  \E i \in DOMAIN buffers' : buffers'[i] = k
    <2>1. PICK i \in DOMAIN buffers : buffers[i] = k
        BY <1>1, <1>3, <1>7 DEF StackInv, HandlersLive
    <2>2. i # Len(buffers)
        BY <1>2, <1>3, <2>1
    <2>3. QED
        BY <1>2, <1>4, <2>1, <2>2
<1>8. \A k \in 1 .. Target - 1 : frames[k].phase # "rethrow"
    BY <1>1, <1>3 DEF StackInv, PhaseInv
<1>9. CASE Caught
    <2>1. Target - 1 \in 0 .. Len(frames)
        BY <1>1, <1>3 DEF Top
    <2>2. /\ frames' \in Seq(Frame) /\ DOMAIN frames' = 1 .. Target - 1
          /\ \A i \in 1 .. Target - 1 : frames'[i] = frames[i]
        <3>1. frames' = SubSeq(frames, 1, Target - 1) /\ frames \in Seq(Frame)
            BY <1>9 DEF Jump, StackInv, StackTypes
        <3> DEFINE n == Target - 1
        <3>2. n \in 0 .. Len(frames) /\ frames' = SubSeq(frames, 1, n)
            BY <2>1, <3>1
        <3> HIDE DEF n
        <3>3. /\ SubSeq(frames, 1, n) \in Seq(Frame)
              /\ DOMAIN SubSeq(frames, 1, n) = 1 .. n
              /\ \A i \in 1 .. n : SubSeq(frames, 1, n)[i] = frames[i]
            BY ONLY <3>1, <3>2, CutFacts
        <3>4. QED
            BY <3>2, <3>3 DEF n
    <2>3. HandlersLive'
        BY <1>5, <1>6, <1>7, <2>2 DEF HandlersLive
    <2>4. PhaseInv'
        BY <1>1, <1>3, <1>8, <2>2 DEF StackInv, PhaseInv
    <2>5. QED
        BY <1>1, <1>3, <1>4, <1>9, <2>2, <2>3, <2>4 DEF StackInv, StackTypes
<1>10. CASE ~Caught
    <2> DEFINE ph == IF level = 0 THEN "rethrow" ELSE "abort"
               cut == SubSeq(frames, 1, Target)
    <2>1. /\ cut \in Seq(Frame) /\ Len(cut) = Target /\ DOMAIN cut = 1 .. Target
          /\ \A i \in 1 .. Target : cut[i] = frames[i]
        <3>1. Target \in 0 .. Len(frames)
            BY <1>1, <1>3 DEF Top
        <3>2. QED
            BY <3>1, CutFacts DEF StackInv, StackTypes
    <2>2. frames' = [cut EXCEPT ![Target] = [@ EXCEPT !.pushed = FALSE, !.phase = ph]]
        BY <1>10 DEF Jump
    <2> DEFINE e == [cut[Target] EXCEPT !.pushed = FALSE, !.phase = ph]
    <2> HIDE DEF cut
    <2>3. e \in Frame /\ e.kind = frames[Target].kind /\ e.phase = ph /\ ~e.pushed
        <3>1. cut[Target] \in Frame /\ ph \in Phase /\ cut[Target].kind = frames[Target].kind
            BY <1>3, <2>1 DEF Phase
        <3>2. QED
            BY <3>1 DEF Frame
    <2>4. /\ frames' \in Seq(Frame) /\ DOMAIN frames' = 1 .. Target /\ Top' = Target
          /\ \A i \in 1 .. Target - 1 : frames'[i] = frames[i]
          /\ frames'[Target].kind = frames[Target].kind
          /\ frames'[Target].phase = ph /\ ~frames'[Target].pushed
        <3>1. frames' = [cut EXCEPT ![Target] = e] /\ Target \in 1 .. Len(cut)
            BY <1>3, <2>1, <2>2
        <3> HIDE DEF e, ph
        <3>2. /\ frames' \in Seq(Frame) /\ Len(frames') = Target /\ DOMAIN frames' = 1 .. Target
              /\ frames'[Target] = e
              /\ \A i \in 1 .. Target : i # Target => frames'[i] = cut[i]
            BY <2>1, <2>3, <3>1, UpdateFacts
        <3>3. QED
            BY <1>3, <2>1, <2>3, <3>2 DEF Top
    <2>5. HandlersLive'
        BY <1>1, <1>3, <1>5, <1>6, <1>7, <2>4 DEF HandlersLive
    <2>6. PhaseInv'
        <3>1. ASSUME NEW k \in 1 .. Target - 1
              PROVE  /\ frames'[k].kind = "try" => frames'[k].phase = "body"
                     /\ frames'[k].phase # "body" => ~frames'[k].pushed
                     /\ frames'[k].phase # "rethrow"
            BY <1>1, <1>3, <1>8, <2>4 DEF StackInv, PhaseInv
        <3>2. frames'[Target].kind # "try"
            BY <1>10, <2>4 DEF Caught
        <3>3. QED
            BY <1>3, <2>4, <3>1, <3>2 DEF PhaseInv
    <2>7. QED
        BY <1>1, <1>3, <1>4, <1>10, <2>4, <2>5, <2>6 DEF StackInv, StackTypes
<1>11. QED
    BY <1>9, <1>10

-----------------------------------------------------------------------------
(* The stacks are in order. *)

IInv == TypeOK /\ HandlersLive /\ PhaseInv

LEMMA StackOfIInv == IInv => StackInv
BY DEF IInv, StackInv, StackTypes, TypeOK

\* What is condemned are objects.
LEMMA CondemnedObjects == pending \subseteq Object => Condemned \subseteq Object
BY TransactionAssumption DEF Condemned

LEMMA StackStep ==
    ASSUME IInv, [Next]_vars
    PROVE  StackInv'
<1>1. StackInv
    BY StackOfIInv
<1>2. ASSUME Running
      PROVE  frames # <<>> /\ frames[Top].phase # "rethrow" /\ frames[Top] \in Frame
    BY <1>1, <1>2, TopBuffer DEF Running
<1>3. CASE BeginTry
    <2>1. frames = <<>> \/ frames[Top].phase # "rethrow"
        BY <1>2, <1>3 DEF BeginTry
    <2>2. HasBuffer \in BOOLEAN /\ "try" \in Kind
        BY DEF HasBuffer, Kind
    <2>3. QED
        BY <1>1, <1>3, <2>1, <2>2, OpenStack DEF BeginTry
<1>4. CASE EndTry
    BY <1>1, <1>2, <1>4, CloseStack DEF EndTry, BodyOver
<1>5. ASSUME NEW k \in {"transaction", "bare"}, Start(k)
      PROVE  StackInv'
    <2>1. CASE level < 0
        BY <1>1, <1>5, <2>1 DEF Start, StackInv, StackTypes, HandlersLive, PhaseInv, Top
    <2>2. CASE ~(level < 0)
        <3>1. (k = "transaction" /\ HasBuffer) \in BOOLEAN /\ k \in Kind
            BY DEF Kind
        <3>2. /\ frames' = Opened(k, k = "transaction" /\ HasBuffer)
              /\ buffers' = Pushed(k = "transaction" /\ HasBuffer)
            BY <1>5, <2>2 DEF Start
        <3>3. frames[Top].phase # "rethrow"
            BY <1>2, <1>5 DEF Start
        <3>4. QED
            BY <1>1, <3>1, <3>2, <3>3, OpenStack
    <2>3. QED
        BY <2>1, <2>2
<1>6. CASE EndNested
    BY <1>1, <1>2, <1>6, CloseStack DEF EndNested, BodyOver
<1>7. CASE EndOutermost
    BY <1>1, <1>2, <1>7, EndStack DEF EndOutermost, BodyOver
<1>8. CASE Finish
    <2>1. frames # <<>> /\ ~frames[Top].pushed
        BY <1>1, <1>8, TopBuffer DEF Finish, NothingToDelete, Deleting, StackInv, PhaseInv
    <2>2. buffers' = Popped /\ frames' = Front(frames)
        BY <1>8, <2>1 DEF Finish, Popped
    <2>3. QED
        BY <1>1, <2>1, <2>2, CloseStack
<1>9. ASSUME NEW o \in Object, Dispose(o)
      PROVE  StackInv'
    BY <1>1, <1>9 DEF Dispose, StackInv, StackTypes, HandlersLive, PhaseInv, Top
<1>10. ASSUME NEW o \in Object, Delete(o)
       PROVE  StackInv'
    <2>1. /\ frames # <<>> /\ frames[Top].phase \in {"end", "abort"} /\ buffers' = buffers
          /\ frames[Top] \in Frame
        BY <1>1, <1>10, TopBuffer DEF Delete, Deleting
    <2>2. frames' = [frames EXCEPT ![Top] = [@ EXCEPT !.phase = frames[Top].phase,
                                                      !.doomed = frames[Top].doomed \ {o}]]
        BY <1>10, <2>1 DEF Delete, Frame
    <2>3. frames[Top].doomed \ {o} \in SUBSET Object
        BY <2>1 DEF Frame
    <2>4. QED
        BY <1>1, <2>1, <2>2, <2>3, DeleteStack
<1>11. CASE Allocate
    BY <1>1, <1>11 DEF Allocate, StackInv, StackTypes, HandlersLive, PhaseInv, Top
<1>12. CASE Collect
    <2>1. /\ frames # <<>> /\ frames[Top].phase \in {"end", "abort"} /\ buffers' = buffers
          /\ frames[Top] \in Frame
        BY <1>1, <1>12, TopBuffer DEF Collect, Deleting
    <2>2. frames' = [frames EXCEPT ![Top] = [@ EXCEPT !.phase = frames[Top].phase,
                                                      !.doomed = Condemned]]
        BY <1>12, <2>1 DEF Collect, Frame
    <2>3. Condemned \in SUBSET Object
        BY CondemnedObjects DEF IInv, TypeOK
    <2>4. QED
        BY <1>1, <2>1, <2>2, <2>3, DeleteStack
<1>13. CASE Throw
    BY <1>1, <1>13, JumpStack DEF Throw
<1>14. CASE FinishAbort
    <2>1. /\ frames # <<>> /\ frames[Top].phase \in {"end", "abort"} /\ buffers' = buffers
          /\ frames[Top] \in Frame
        BY <1>1, <1>14, TopBuffer DEF FinishAbort, NothingToDelete, Deleting
    <2>2. frames' = [frames EXCEPT ![Top] = [@ EXCEPT !.phase = "rethrow",
                                                      !.doomed = frames[Top].doomed]]
        BY <1>14, <2>1 DEF FinishAbort, Frame
    <2>3. frames[Top].doomed \in SUBSET Object
        BY <2>1 DEF Frame
    <2>4. QED
        BY <1>1, <2>1, <2>2, <2>3, DeleteStack
<1>15. CASE Rethrow
    BY <1>1, <1>15, JumpStack DEF Rethrow
<1>16. CASE UNCHANGED vars
    BY <1>1, <1>16 DEF vars, StackInv, StackTypes, HandlersLive, PhaseInv, Top
<1>17. QED
    BY <1>3, <1>4, <1>5, <1>6, <1>7, <1>8, <1>9, <1>10, <1>11, <1>12, <1>13, <1>14, <1>15, <1>16
    DEF Next, Undefined

LEMMA TypeStep ==
    ASSUME IInv, [Next]_vars
    PROVE  TypeOK'
<1>1. StackTypes' /\ TypeOK
    BY StackStep DEF StackInv, IInv
<1>2. Top \in Nat /\ EmptyPool \in Pool /\ MaxLevel \in Nat
    BY <1>1, TransactionAssumption DEF TypeOK, Top, EmptyPool, Pool
<1>3. ASSUME NEW n PROVE Kept(n) \subseteq [owner : Nat, chunk : Nat, place : Nat]
    BY <1>1 DEF Kept, TypeOK
<1>4. CASE BeginTry
    BY <1>1, <1>4 DEF BeginTry, TypeOK, StackTypes, memory, history
<1>5. CASE EndTry
    BY <1>1, <1>3, <1>5 DEF EndTry, TypeOK, StackTypes, memory, history
<1>6. ASSUME NEW k \in {"transaction", "bare"}, Start(k)
      PROVE  TypeOK'
    <2>1. CASE level < 0
        BY <1>1, <1>6, <2>1 DEF Start, TypeOK, StackTypes, memory, history
    <2>2. CASE ~(level < 0)
        <3>1. level \in 0 .. MaxLevel - 1 /\ level' = level + 1
            BY <1>1, <1>2, <1>6, <2>2 DEF Start, TypeOK
        <3>2. pool' \in Pool
            BY <1>1, <1>2, <1>6, <2>2 DEF Start, TypeOK
        <3>3. saved' \in [0 .. MaxLevel - 1 -> Pool]
            BY <1>1, <1>6, <2>2, <3>1, <3>2 DEF Start, TypeOK
        <3>4. QED
            BY <1>1, <1>2, <1>6, <2>2, <3>1, <3>2, <3>3 DEF Start, TypeOK, StackTypes, history
    <2>3. QED
        BY <2>1, <2>2
<1>7. CASE EndNested
    <2>1. level - 1 \in 0 .. MaxLevel - 1
        BY <1>1, <1>2, <1>7 DEF EndNested, TypeOK
    <2>2. QED
        BY <1>1, <1>2, <1>3, <1>7, <2>1 DEF EndNested, TypeOK, StackTypes, history
<1>8. CASE EndOutermost
    BY <1>1, <1>8 DEF EndOutermost, TypeOK, StackTypes, memory, history
<1>9. CASE Finish
    BY <1>1, <1>2, <1>3, <1>9 DEF Finish, TypeOK, StackTypes, memory, history
<1>10. ASSUME NEW o \in Object, Dispose(o)
       PROVE  TypeOK'
    BY <1>1, <1>10 DEF Dispose, TypeOK, StackTypes, memory, history
<1>11. ASSUME NEW o \in Object, Delete(o)
       PROVE  TypeOK'
    BY <1>1, <1>11 DEF Delete, TypeOK, StackTypes, memory, history
<1>12. CASE Allocate
    <2>1. pool' \in Pool
        <3>1. pool \in Pool /\ pool.used \in Nat /\ pool.chunk \in Nat
            BY <1>1 DEF TypeOK, Pool
        <3>2. [pool EXCEPT !.used = @ + 1] \in Pool /\ [chunk |-> pool.chunk + 1, used |-> 1] \in Pool
            BY <3>1 DEF Pool
        <3>3. QED
            BY <1>12, <3>2 DEF Allocate
    <2>2. blocks' \subseteq [owner : Nat, chunk : Nat, place : Nat]
        BY <1>1, <1>2, <1>12, <2>1 DEF Allocate, TypeOK, Pool
    <2>3. QED
        BY <1>1, <1>12, <2>1, <2>2 DEF Allocate, TypeOK, StackTypes, history
<1>13. CASE Collect
    BY <1>1, <1>13 DEF Collect, TypeOK, StackTypes, memory, history
<1>14. ASSUME Jump, leaked' \in BOOLEAN
       PROVE  TypeOK'
    <2>1. level' \in Int /\ level' <= MaxLevel
        BY <1>1, <1>14, TransactionAssumption DEF Jump, TypeOK
    <2>2. blocks' \subseteq [owner : Nat, chunk : Nat, place : Nat]
        BY <1>3, <1>14 DEF Jump
    <2>3. swallowed' \in BOOLEAN
        BY <1>14 DEF Jump
    <2>4. QED
        BY <1>1, <1>14, <2>1, <2>2, <2>3 DEF Jump, TypeOK, StackTypes, memory
<1>15. CASE Throw
    <2>1. Jump /\ leaked' \in BOOLEAN
        BY <1>15 DEF Throw
    <2>2. QED
        BY <1>14, <2>1
<1>16. CASE Rethrow
    <2>1. Jump /\ leaked' \in BOOLEAN
        BY <1>16 DEF Rethrow
    <2>2. QED
        BY <1>14, <2>1
<1>17. CASE FinishAbort
    BY <1>1, <1>2, <1>17 DEF FinishAbort, TypeOK, StackTypes, memory, history
<1>18. CASE UNCHANGED vars
    BY <1>1, <1>18 DEF vars, TypeOK
<1>19. QED
    BY <1>4, <1>5, <1>6, <1>7, <1>8, <1>9, <1>10, <1>11, <1>12, <1>13, <1>15, <1>16, <1>17, <1>18
    DEF Next, Undefined

LEMMA IInvInit == Init => IInv
<1> SUFFICES ASSUME Init PROVE IInv
    OBVIOUS
<1>1. frames \in Seq(Frame) /\ buffers \in Seq(Nat) /\ DOMAIN frames = {} /\ DOMAIN buffers = {}
    BY DEF Init
<1>2. EmptyPool \in Pool
    BY DEF EmptyPool, Pool
<1>3. TypeOK
    BY <1>1, <1>2, TransactionAssumption DEF Init, TypeOK
<1>4. QED
    BY <1>1, <1>3 DEF IInv, HandlersLive, PhaseInv

LEMMA IInvStep == IInv /\ [Next]_vars => IInv'
BY StackStep, TypeStep DEF IInv, StackInv

LEMMA IInvAlways == Spec => []IInv
BY IInvInit, IInvStep, PTL DEF Spec

\* Every variable keeps its type, the level at or below MAX_TRANSAC_LEVEL.
THEOREM Typing == Spec => []TypeOK
BY IInvAlways, PTL DEF IInv

\* An error lands in a construct that is still open, however the constructs
\* are nested and whether or not the stack of buffers was full when they began.
THEOREM JumpsLand == Spec => []HandlersLive
BY IInvAlways, PTL DEF IInv

-----------------------------------------------------------------------------
(* The level counts the transactions that are still to end. *)

\* The constructs whose handler runs, or has run: those around them count no
\* more, they have been ended with them.
Broken == {k \in DOMAIN frames : frames[k].phase \in {"abort", "rethrow"}}
Passing == {k \in DOMAIN frames : frames[k].phase = "rethrow"}
Ending == {k \in DOMAIN frames : frames[k].phase = "end"}

\* The transactions that are still to end.
Valid == {j \in Transactions : j \notin Passing /\ \A i \in Broken : i <= j}

LevelInv ==
    /\ ~leaked => level <= Cardinality(Valid)
    /\ ~swallowed => Cardinality(Valid) <= level

\* What is to be deleted is still to be found, and a transaction will look.
PendingInv ==
    /\ ~swallowed /\ pending # {} => level >= 1
    /\ \A o \in Object : id[o] = "disposed" => o \in pending \cup Headed

\* Nothing is open around a transaction whose end deletes.
EndInv == ~swallowed => \A k \in Ending, j \in Transactions : k <= j

LInv == LevelInv /\ PendingInv /\ EndInv

\* A set of numbers that is bounded has a largest one.
LEMMA Largest ==
    ASSUME NEW n \in Nat, NEW T \in SUBSET (1 .. n), T # {}
    PROVE  \E m \in T : \A t \in T : t <= m
<1> DEFINE R == OpToRel(<, Nat)
           U == {n - t : t \in T}
<1>1. IsWellFoundedOn(R, Nat)
    BY NatLessThanWellFounded
<1>2. \A t \in T : n - t \in Nat
    OBVIOUS
<1>3. U \subseteq Nat
    BY <1>2
<1>4. U # {}
    OBVIOUS
<1>5. PICK x \in U : \A y \in U : ~(<<y, x>> \in R)
    <2> HIDE DEF U, R
    <2>1. QED
        BY <1>1, <1>3, <1>4, WFMin
<1>6. \A y \in U : ~(y < x)
    <2> HIDE DEF U
    <2>1. QED
        BY <1>3, <1>5 DEF OpToRel
<1>7. PICK m \in T : x = n - m
    OBVIOUS
<1>8. ASSUME NEW t \in T PROVE t <= m
    <2>1. ~(n - t < n - m) /\ t \in Int /\ m \in Int
        BY <1>6, <1>7
    <2>2. QED
        BY <2>1
<1>9. QED
    BY <1>8

LEMMA SetFacts ==
    ASSUME StackInv
    PROVE  /\ Top \in Nat /\ DOMAIN frames = 1 .. Top
           /\ Transactions \subseteq 1 .. Top /\ Broken \subseteq Transactions
           /\ Passing \subseteq Broken /\ Passing \subseteq {Top} /\ Ending \subseteq Transactions
           /\ Valid \subseteq Transactions /\ IsFiniteSet(Valid) /\ Cardinality(Valid) \in Nat
<1>1. Top \in Nat /\ DOMAIN frames = 1 .. Top
    BY DEF StackInv, StackTypes, Top
<1>2. Transactions \subseteq 1 .. Top
    BY <1>1 DEF Transactions
<1>3. Broken \subseteq Transactions
    BY DEF Broken, Transactions, StackInv, PhaseInv
<1>4. Passing \subseteq Broken /\ Passing \subseteq {Top}
    BY DEF Passing, Broken, StackInv, PhaseInv
<1>5. Ending \subseteq Transactions
    BY DEF Ending, Transactions, StackInv, PhaseInv
<1>6. Valid \subseteq Transactions
    BY DEF Valid
<1>7. IsFiniteSet(Valid) /\ Cardinality(Valid) \in Nat
    <2>1. IsFiniteSet(1 .. Top)
        BY <1>1, FS_Interval
    <2>2. Valid \in SUBSET (1 .. Top)
        BY <1>2, <1>6
    <2>3. IsFiniteSet(Valid)
        BY <2>1, <2>2, FS_Subset
    <2>4. QED
        BY <2>3, FS_CardinalityType
<1>8. QED
    BY <1>1, <1>2, <1>3, <1>4, <1>5, <1>6, <1>7

\* The innermost transaction is still to end, unless it passes an error on.
LEMMA InnermostIsValid ==
    ASSUME StackInv, NEW n \in Nat, NEW k \in Transactions, k <= n,
           \A i \in Broken : i <= n, Passing = {}
    PROVE  \E v \in Valid : v <= n
<1> DEFINE T == {j \in Transactions : j <= n}
<1>1. T \in SUBSET (1 .. n) /\ T # {}
    BY SetFacts
<1>2. PICK m \in T : \A t \in T : t <= m
    <2> HIDE DEF T
    <2>1. QED
        BY <1>1, Largest
<1>3. \A i \in Broken : i <= m
    BY <1>2, SetFacts
<1>4. QED
    BY <1>2, <1>3 DEF Valid

LEMMA RunningFacts ==
    ASSUME StackInv, frames # <<>>, frames[Top].phase # "rethrow"
    PROVE  Passing = {}
BY SetFacts DEF Passing

LEMMA ValidOfSame ==
    ASSUME Transactions' = Transactions, Broken' = Broken, Passing' = Passing
    PROVE  Valid' = Valid
BY DEF Valid

\* A transaction has begun.
LEMMA OneMore ==
    ASSUME StackInv, Transactions' = Transactions \cup {Top + 1}, Broken' = Broken, Passing' = Passing
    PROVE  Cardinality(Valid') = Cardinality(Valid) + 1
<1>1. Valid' = Valid \cup {Top + 1}
    BY SetFacts DEF Valid
<1>2. Top + 1 \notin Valid
    BY SetFacts
<1>3. QED
    BY <1>1, <1>2, SetFacts, FS_AddElement

\* The innermost construct is a transaction, and it has ended.
LEMMA OneLess ==
    ASSUME StackInv, Transactions' = Transactions \ {Top}, Broken' = Broken, Passing' = Passing,
           Top \in Transactions, Top \notin Broken
    PROVE  Cardinality(Valid') = Cardinality(Valid) - 1 /\ Cardinality(Valid) >= 1
<1>1. Valid' = Valid \ {Top}
    BY DEF Valid
<1>2. Top \in Valid
    BY SetFacts DEF Valid
<1>3. Cardinality(Valid') = Cardinality(Valid) - 1
    BY <1>1, <1>2, SetFacts, FS_RemoveElement
<1>4. Valid # {}
    BY <1>2
<1>5. Cardinality(Valid) # 0
    BY <1>4, SetFacts, FS_EmptySet
<1>6. QED
    BY <1>3, <1>5, SetFacts

LEMMA SameLevel ==
    ASSUME LInv, Valid' = Valid,
           UNCHANGED <<level, leaked, swallowed>>
    PROVE  LevelInv'
BY DEF LInv, LevelInv

LEMMA SamePending ==
    ASSUME LInv, UNCHANGED <<level, swallowed, pending, id>>
    PROVE  PendingInv'
BY DEF LInv, PendingInv

LEMMA SameEnd ==
    ASSUME LInv, StackInv, swallowed' = FALSE => swallowed = FALSE, swallowed \in BOOLEAN,
           Ending' \subseteq Ending, Transactions' \subseteq Transactions \cup {Top + 1}
    PROVE  EndInv'
BY SetFacts DEF LInv, EndInv

-----------------------------------------------------------------------------
(* What an error does to the level. *)

LEMMA JumpShape ==
    ASSUME StackInv, buffers # <<>>, Jump
    PROVE  /\ Target \in 1 .. Top /\ Ending' \subseteq Ending
           /\ Caught =>
                /\ Transactions' = {k \in Transactions : k < Target} /\ Target \notin Transactions
                /\ Broken' = {k \in Broken : k < Target}
                /\ Passing' = {}
           /\ ~Caught =>
                /\ Transactions' = {k \in Transactions : k <= Target} /\ Target \in Transactions'
                /\ Broken' = {k \in Broken : k < Target} \cup {Target}
                /\ Passing' = IF level = 0 THEN {Target} ELSE {}
<1>1. /\ StackInv' /\ Top \in Nat /\ DOMAIN frames = 1 .. Top /\ Target \in 1 .. Top
      /\ \A i \in 1 .. Target - 1 : frames'[i] = frames[i]
    BY JumpStack
<1>2. \A i \in 1 .. Target - 1 : i \notin Passing
    BY <1>1, SetFacts
<1>3. CASE Caught
    <2>1. DOMAIN frames' = 1 .. Target - 1
        BY <1>3, JumpStack
    <2>2. Target \notin Transactions
        BY <1>3 DEF Caught, Transactions
    <2>3. Transactions' = {k \in Transactions : k < Target}
        BY <1>1, <2>1 DEF Transactions
    <2>4. Broken' = {k \in Broken : k < Target} /\ Ending' \subseteq Ending
        BY <1>1, <2>1 DEF Broken, Ending
    <2>5. Passing' = {}
        BY <1>1, <1>2, <2>1 DEF Passing
    <2>6. QED
        BY <1>1, <1>3, <2>2, <2>3, <2>4, <2>5
<1>4. CASE ~Caught
    <2>1. /\ DOMAIN frames' = 1 .. Target
          /\ frames'[Target].kind = frames[Target].kind
          /\ frames'[Target].phase = IF level = 0 THEN "rethrow" ELSE "abort"
        BY <1>4, JumpStack
    <2>2. frames[Target].kind # "try" /\ Target \in Transactions
        BY <1>1, <1>4 DEF Caught, Transactions
    <2>3. \A i \in 1 .. Target : i = Target \/ i \in 1 .. Target - 1
        BY <1>1
    <2>4. Transactions' = {k \in Transactions : k <= Target} /\ Target \in Transactions'
        BY <1>1, <2>1, <2>2, <2>3 DEF Transactions
    <2>5. Broken' = {k \in Broken : k < Target} \cup {Target}
        BY <1>1, <2>1, <2>3 DEF Broken
    <2>6. Ending' \subseteq Ending
        BY <1>1, <2>1, <2>3 DEF Ending
    <2>7. Passing' = IF level = 0 THEN {Target} ELSE {}
        BY <1>1, <1>2, <2>1, <2>3 DEF Passing
    <2>8. QED
        BY <1>1, <1>4, <2>4, <2>5, <2>6, <2>7
<1>5. QED
    BY <1>3, <1>4

\* A handler of start_transaction is alone with its transaction, or has none.
LEMMA UncaughtLevel ==
    ASSUME StackInv, LInv, buffers # <<>>, Jump, ~Caught
    PROVE  LevelInv'
<1>1. /\ Transactions' = {k \in Transactions : k <= Target} /\ Target \in Transactions'
      /\ Broken' = {k \in Broken : k < Target} \cup {Target}
      /\ Passing' = IF level = 0 THEN {Target} ELSE {}
      /\ Transactions \subseteq 1 .. Top /\ Target \in 1 .. Top /\ Top \in Nat
    BY JumpShape, SetFacts
<1>2. ASSUME NEW v \in Valid'
      PROVE  v = Target
    <2>1. v \in Transactions' /\ \A i \in Broken' : i <= v
        BY DEF Valid
    <2>2. v \in Transactions /\ v <= Target /\ Target <= v
        BY <1>1, <2>1
    <2>3. v \in Int /\ Target \in Int
        BY <1>1, <2>2
    <2>4. QED
        BY <2>2, <2>3
<1>3. CASE level = 0
    <2>1. Valid' = {} /\ level' = 0
        BY <1>1, <1>3, <1>2 DEF Valid, Jump
    <2>2. QED
        BY <2>1, FS_EmptySet DEF LevelInv
<1>4. CASE level # 0
    <2>1. Valid' = {Target} /\ level' = 1
        <3>1. level' = 1 /\ Passing' = {}
            BY <1>1, <1>4 DEF Jump
        <3>2. Target \in Valid'
            <4>1. ASSUME NEW i \in Broken' PROVE i <= Target
                <5>1. i = Target \/ (i \in Broken /\ i < Target)
                    BY <1>1, <4>1
                <5>2. i \in Int /\ Target \in Int
                    <6>1. Transactions \subseteq 1 .. Top /\ Broken \subseteq Transactions
                          /\ Top \in Nat /\ Target \in 1 .. Top
                        BY <1>1, SetFacts
                    <6>2. i \in 1 .. Top
                        BY <5>1, <6>1
                    <6>3. QED
                        BY <6>1, <6>2
                <5>3. QED
                    BY <5>1, <5>2
            <4>2. QED
                BY <1>1, <3>1, <4>1 DEF Valid
        <3>3. QED
            BY <1>2, <3>1, <3>2
    <2>2. Cardinality(Valid') = 1
        BY <2>1, FS_Singleton
    <2>3. QED
        BY <2>1, <2>2 DEF LevelInv
<1>5. QED
    BY <1>3, <1>4

LEMMA CaughtLevel ==
    ASSUME StackInv, LInv, buffers # <<>>, Jump, Caught, swallowed \in BOOLEAN, level \in Int,
           leaked' = FALSE => leaked = FALSE, leaked' \in BOOLEAN,
           \/ Passing = {Top} /\ Top \in Broken
           \/ Passing = {} /\ (~leaked' => \A k \in Transactions : k <= Target)
    PROVE  LevelInv'
<1>1. level' = level /\ StackInv'
    BY JumpStack DEF Jump
<1>2. /\ Transactions' = {k \in Transactions : k < Target} /\ Target \notin Transactions
      /\ Broken' = {k \in Broken : k < Target} /\ Passing' = {} /\ Target \in 1 .. Top
    BY JumpShape
<1>3. swallowed' = FALSE => swallowed = FALSE /\ ~Swallows
    BY DEF Jump
<1>4. swallowed' \in BOOLEAN
    BY DEF Jump
<1>5. Swallows <=> (\E k \in Transactions : k < Target) /\ (\E k \in Broken : k > Target)
    BY DEF Swallows, Broken
<1>6. Cardinality(Valid) \in Nat /\ Cardinality(Valid') \in Nat
    <2>1. Cardinality(Valid) \in Nat /\ IsFiniteSet(1 .. Top)
        BY SetFacts, FS_Interval
    <2>2. Valid' \in SUBSET (1 .. Top)
        BY <1>2, SetFacts DEF Valid
    <2>3. QED
        BY <2>1, <2>2, FS_Subset, FS_CardinalityType
<1>7. CASE Passing = {Top} /\ Top \in Broken
    <2>1. Valid = {}
        BY <1>7, SetFacts DEF Valid
    <2>2. Cardinality(Valid) = 0
        BY <2>1, FS_EmptySet
    <2>3. Top > Target
        BY <1>2, <1>7, SetFacts
    <2>4. swallowed' = FALSE => Transactions' = {}
        BY <1>2, <1>3, <1>5, <1>7, <2>3
    <2>5. swallowed' = FALSE => Cardinality(Valid') = 0
        BY <2>4, FS_EmptySet DEF Valid
    <2>6. swallowed' = FALSE => Cardinality(Valid') <= level'
        BY <1>1, <1>3, <2>2, <2>5 DEF LInv, LevelInv
    <2>7. leaked' = FALSE => level' <= Cardinality(Valid')
        BY <1>1, <1>6, <2>2 DEF LInv, LevelInv
    <2>8. QED
        BY <1>4, <2>6, <2>7 DEF LevelInv
<1>8. CASE Passing = {} /\ (~leaked' => \A k \in Transactions : k <= Target)
    <2>1. ASSUME leaked' = FALSE
          PROVE  Valid' = Valid
        <3>1. \A k \in Transactions : k < Target
            BY <1>2, <1>8, <2>1, SetFacts
        <3>2. Transactions' = Transactions /\ Broken' = Broken /\ Passing' = Passing
            BY <1>2, <1>8, <3>1, SetFacts
        <3>3. QED
            BY <3>2, ValidOfSame
    <2>2. ASSUME swallowed' = FALSE
          PROVE  Cardinality(Valid') <= Cardinality(Valid)
        <3>1. CASE \A k \in Transactions : ~(k < Target)
            <4>1. Valid' = {}
                BY <1>2, <3>1 DEF Valid
            <4>2. QED
                BY <1>6, <4>1, FS_EmptySet
        <3>2. CASE \A k \in Broken : ~(k > Target)
            <4>1. Broken' = Broken
                BY <1>2, <3>2, SetFacts
            <4>2. Valid' \in SUBSET Valid
                BY <1>2, <1>8, <4>1 DEF Valid
            <4>3. QED
                BY <4>2, SetFacts, FS_Subset
        <3>3. QED
            BY <1>3, <1>5, <2>2, <3>1, <3>2
    <2>3. leaked' = FALSE => level' <= Cardinality(Valid')
        BY <1>1, <2>1 DEF LInv, LevelInv
    <2>4. ASSUME swallowed' = FALSE
          PROVE  Cardinality(Valid') <= level'
        <3>1. Cardinality(Valid) <= level /\ level' = level
            BY <1>1, <1>3, <2>4 DEF LInv, LevelInv
        <3>2. Cardinality(Valid') <= Cardinality(Valid)
            BY <2>2, <2>4
        <3>3. QED
            BY <1>6, <3>1, <3>2
    <2>5. swallowed' = FALSE => Cardinality(Valid') <= level'
        BY <2>4
    <2>6. QED
        BY <1>4, <2>3, <2>5 DEF LevelInv
<1>9. QED
    BY <1>7, <1>8

LEMMA JumpPending ==
    ASSUME LInv, Jump, swallowed \in BOOLEAN, level \in Int
    PROVE  PendingInv'
<1>1. UNCHANGED <<pending, id>> /\ (swallowed' = FALSE => swallowed = FALSE) /\ swallowed' \in BOOLEAN
    BY DEF Jump
<1>2. level >= 1 => level' >= 1
    BY DEF Jump
<1>3. QED
    BY <1>1, <1>2 DEF LInv, PendingInv

LEMMA JumpEnd ==
    ASSUME StackInv, LInv, buffers # <<>>, Jump, swallowed \in BOOLEAN
    PROVE  EndInv'
<1>1. (swallowed' = FALSE => swallowed = FALSE)
    BY DEF Jump
<1>2. Ending' \subseteq Ending /\ Transactions' \subseteq Transactions
    BY JumpShape
<1>3. QED
    BY <1>1, <1>2, SameEnd

-----------------------------------------------------------------------------
(* What the steps without an error do to these sets. *)

LEMMA OpenShape ==
    ASSUME StackInv, NEW k \in Kind, NEW p \in BOOLEAN,
           frames = <<>> \/ frames[Top].phase # "rethrow",
           frames' = Opened(k, p), buffers' = Pushed(p)
    PROVE  /\ Broken' = Broken /\ Passing' = Passing /\ Ending' = Ending
           /\ Transactions' = IF k = "try" THEN Transactions ELSE Transactions \cup {Top + 1}
           /\ Top' = Top + 1 /\ StackInv'
<1>1. /\ Top \in Nat /\ DOMAIN frames' = 1 .. Top + 1 /\ DOMAIN frames = 1 .. Top
      /\ \A i \in 1 .. Top : frames'[i] = frames[i]
      /\ frames'[Top + 1].kind = k /\ frames'[Top + 1].phase = "body" /\ StackInv'
    BY OpenStack
<1>2. \A i \in DOMAIN frames' : i = Top + 1 \/ i \in DOMAIN frames
    BY <1>1
<1>3. DOMAIN frames \subseteq DOMAIN frames' /\ Top + 1 \in DOMAIN frames' /\ Top + 1 \notin DOMAIN frames
    BY <1>1
<1>4. Broken' = Broken /\ Passing' = Passing /\ Ending' = Ending
    BY <1>1, <1>2, <1>3 DEF Broken, Passing, Ending
<1>5. Transactions' = IF k = "try" THEN Transactions ELSE Transactions \cup {Top + 1}
    BY <1>1, <1>2, <1>3 DEF Transactions
<1>6. Top' = Top + 1
    BY <1>1 DEF StackInv, StackTypes, Top
<1>7. QED
    BY <1>1, <1>4, <1>5, <1>6

LEMMA CloseShape ==
    ASSUME StackInv, frames # <<>>, frames' = Front(frames), buffers' = Popped,
           frames[Top].phase \in {"body", "end"}
    PROVE  /\ Broken' = Broken /\ Passing' = Passing /\ Ending' \subseteq Ending
           /\ Transactions' = Transactions \ {Top} /\ Top \notin Broken
           /\ Top \in Transactions <=> frames[Top].kind # "try"
           /\ Top' = Top - 1 /\ StackInv'
<1>1. /\ Top \in Nat \ {0} /\ DOMAIN frames' = 1 .. Top - 1 /\ DOMAIN frames = 1 .. Top
      /\ \A i \in 1 .. Top - 1 : frames'[i] = frames[i]
      /\ StackInv'
    BY CloseStack
<1>2. \A i \in DOMAIN frames : i = Top \/ i \in DOMAIN frames'
    BY <1>1
<1>3. DOMAIN frames' \subseteq DOMAIN frames /\ Top \in DOMAIN frames /\ Top \notin DOMAIN frames'
    BY <1>1
<1>4. Broken' = Broken /\ Passing' = Passing /\ Ending' \subseteq Ending /\ Top \notin Broken
    BY <1>1, <1>2, <1>3 DEF Broken, Passing, Ending
<1>5. Transactions' = Transactions \ {Top} /\ (Top \in Transactions <=> frames[Top].kind # "try")
    BY <1>1, <1>2, <1>3 DEF Transactions
<1>6. Top' = Top - 1
    BY FrontFacts DEF StackInv, StackTypes, Top
<1>7. QED
    BY <1>1, <1>4, <1>5, <1>6

LEMMA DeleteShape ==
    ASSUME StackInv, frames # <<>>, frames[Top].phase \in {"end", "abort"}, buffers' = buffers,
           NEW d \in SUBSET Object,
           frames' = [frames EXCEPT ![Top] = [@ EXCEPT !.phase = frames[Top].phase, !.doomed = d]]
    PROVE  /\ Transactions' = Transactions /\ Broken' = Broken
           /\ Passing' = Passing /\ Ending' = Ending
           /\ Top' = Top /\ StackInv'
<1>1. /\ Top \in Nat \ {0} /\ DOMAIN frames' = 1 .. Top /\ DOMAIN frames = 1 .. Top
      /\ \A i \in 1 .. Top - 1 : frames'[i] = frames[i]
      /\ frames'[Top].kind = frames[Top].kind /\ frames'[Top].phase = frames[Top].phase
      /\ StackInv'
    BY DeleteStack
<1>2. \A i \in DOMAIN frames : frames'[i].kind = frames[i].kind /\ frames'[i].phase = frames[i].phase
    BY <1>1
<1>3. Transactions' = Transactions /\ Broken' = Broken /\ Passing' = Passing /\ Ending' = Ending
    BY <1>1, <1>2 DEF Transactions, Broken, Passing, Ending
<1>4. Top' = Top
    BY <1>1 DEF StackInv, StackTypes, Top
<1>5. QED
    BY <1>1, <1>3, <1>4

LEMMA EndShape ==
    ASSUME StackInv, frames # <<>>, frames[Top].phase = "body", frames[Top].kind # "try",
           buffers' = Popped, frames' = [frames EXCEPT ![Top].phase = "end", ![Top].pushed = FALSE]
    PROVE  /\ Transactions' = Transactions /\ Top \in Transactions
           /\ Broken' = Broken /\ Passing' = Passing /\ Top \notin Broken
           /\ Ending' \subseteq Ending \cup {Top}
           /\ Top' = Top /\ StackInv'
<1>1. /\ Top \in Nat \ {0} /\ DOMAIN frames' = 1 .. Top /\ DOMAIN frames = 1 .. Top
      /\ \A i \in 1 .. Top - 1 : frames'[i] = frames[i]
      /\ frames'[Top].kind = frames[Top].kind /\ frames'[Top].phase = "end"
      /\ StackInv'
    BY EndStack
<1>2. \A i \in DOMAIN frames : i = Top \/ frames'[i] = frames[i]
    BY <1>1
<1>3. Transactions' = Transactions /\ Top \in Transactions
    BY <1>1, <1>2 DEF Transactions
<1>4. Broken' = Broken /\ Passing' = Passing /\ Top \notin Broken
    BY <1>1, <1>2 DEF Broken, Passing
<1>5. Ending' \subseteq Ending \cup {Top}
    BY <1>1, <1>2 DEF Ending
<1>6. Top' = Top
    BY <1>1 DEF StackInv, StackTypes, Top
<1>7. QED
    BY <1>1, <1>3, <1>4, <1>5, <1>6

\* The handler of start_transaction passes the error on.
LEMMA PassShape ==
    ASSUME StackInv, FinishAbort
    PROVE  /\ Transactions' = Transactions /\ Broken' = Broken /\ Ending' \subseteq Ending
           /\ Passing = {} /\ Top \in Broken /\ Top \in Passing' /\ Valid' = {}
           /\ Top' = Top /\ StackInv'
<1>1. /\ frames # <<>> /\ frames[Top].phase = "abort" /\ buffers' = buffers
      /\ frames[Top] \in Frame
    BY TopBuffer DEF FinishAbort, NothingToDelete, Deleting
<1>2. frames' = [frames EXCEPT ![Top] = [@ EXCEPT !.phase = "rethrow", !.doomed = frames[Top].doomed]]
    BY <1>1 DEF FinishAbort, Frame
<1>3. frames[Top].doomed \in SUBSET Object
    BY <1>1 DEF Frame
<1>4. /\ Top \in Nat \ {0} /\ DOMAIN frames' = 1 .. Top /\ DOMAIN frames = 1 .. Top
      /\ \A i \in 1 .. Top - 1 : frames'[i] = frames[i]
      /\ frames'[Top].kind = frames[Top].kind /\ frames'[Top].phase = "rethrow"
      /\ StackInv'
    BY <1>1, <1>2, <1>3, DeleteStack
<1>5. \A i \in DOMAIN frames : i = Top \/ frames'[i] = frames[i]
    BY <1>4
<1>6. Transactions' = Transactions
    BY <1>4, <1>5 DEF Transactions
<1>7. Broken' = Broken /\ Top \in Broken /\ Ending' \subseteq Ending
    BY <1>1, <1>4, <1>5 DEF Broken, Ending
<1>8. Passing = {} /\ Top \in Passing'
    BY <1>1, <1>4, RunningFacts DEF Passing
<1>9. Valid' = {}
    BY <1>6, <1>7, <1>8, SetFacts DEF Valid
<1>10. Top' = Top
    BY <1>4 DEF StackInv, StackTypes, Top
<1>11. QED
    BY <1>4, <1>6, <1>7, <1>8, <1>9, <1>10

-----------------------------------------------------------------------------
(* Every step keeps the count. *)

LEMMA LInvStep ==
    ASSUME IInv, LInv, [Next]_vars
    PROVE  LInv'
<1>1. StackInv /\ swallowed \in BOOLEAN /\ leaked \in BOOLEAN /\ level \in Int
    BY StackOfIInv DEF IInv, TypeOK
<1>2. ASSUME UNCHANGED <<frames, level, leaked, swallowed>>, PendingInv'
      PROVE  LInv'
    <2>1. Transactions' = Transactions /\ Broken' = Broken /\ Passing' = Passing /\ Ending' = Ending
        BY <1>2 DEF Transactions, Broken, Passing, Ending
    <2>2. QED
        BY <1>1, <1>2, <2>1, ValidOfSame, SameLevel, SameEnd DEF LInv
<1>3. ASSUME Running
      PROVE  frames # <<>> /\ frames[Top].phase # "rethrow" /\ Passing = {}
    BY <1>1, <1>3, RunningFacts DEF Running
<1>4. ASSUME NEW k \in Kind, NEW p \in BOOLEAN,
             frames = <<>> \/ frames[Top].phase # "rethrow",
             frames' = Opened(k, p), buffers' = Pushed(p)
      PROVE  /\ Broken' = Broken /\ Passing' = Passing /\ Ending' = Ending
             /\ Transactions' = IF k = "try" THEN Transactions ELSE Transactions \cup {Top + 1}
    BY <1>1, <1>4, OpenShape
<1>5. ASSUME frames # <<>>, frames' = Front(frames), buffers' = Popped,
             frames[Top].phase \in {"body", "end"}
      PROVE  /\ Broken' = Broken /\ Passing' = Passing /\ Ending' \subseteq Ending
             /\ Transactions' = Transactions \ {Top} /\ Top \notin Broken
             /\ Top \in Transactions <=> frames[Top].kind # "try"
    BY <1>1, <1>5, CloseShape
<1>6. ASSUME frames # <<>>, frames[Top].phase \in {"end", "abort"}, buffers' = buffers,
             NEW d \in SUBSET Object,
             frames' = [frames EXCEPT ![Top] = [@ EXCEPT !.phase = frames[Top].phase, !.doomed = d]],
             UNCHANGED <<level, leaked, swallowed>>, PendingInv'
      PROVE  LInv'
    <2>1. Transactions' = Transactions /\ Broken' = Broken /\ Passing' = Passing /\ Ending' = Ending
        BY <1>1, <1>6, DeleteShape
    <2>2. QED
        BY <1>1, <1>6, <2>1, ValidOfSame, SameLevel, SameEnd DEF LInv
<1>7. CASE BeginTry
    <2>1. frames = <<>> \/ frames[Top].phase # "rethrow"
        BY <1>3, <1>7 DEF BeginTry
    <2>2. HasBuffer \in BOOLEAN /\ "try" \in Kind
        BY DEF HasBuffer, Kind
    <2>3. /\ Broken' = Broken /\ Passing' = Passing /\ Ending' = Ending
          /\ Transactions' = Transactions
        BY <1>4, <1>7, <2>1, <2>2 DEF BeginTry
    <2>4. QED
        BY <1>1, <1>7, <2>3, ValidOfSame, SameLevel, SamePending, SameEnd DEF BeginTry, LInv, history
<1>8. CASE EndTry
    <2>1. /\ frames # <<>> /\ frames[Top].phase = "body" /\ frames[Top].kind = "try"
          /\ frames' = Front(frames) /\ buffers' = Popped
        BY <1>3, <1>8 DEF EndTry, BodyOver
    <2>2. /\ Broken' = Broken /\ Passing' = Passing /\ Ending' \subseteq Ending
          /\ Transactions' = Transactions
        BY <1>5, <2>1
    <2>3. QED
        BY <1>1, <1>8, <2>2, ValidOfSame, SameLevel, SamePending, SameEnd DEF EndTry, LInv, history
<1>9. ASSUME NEW k \in {"transaction", "bare"}, Start(k)
      PROVE  LInv'
    <2>1. CASE level < 0
        <3>1. UNCHANGED <<frames, level, pending, id, leaked, swallowed>>
            BY <1>9, <2>1 DEF Start, history
        <3>2. QED
            BY <1>2, <3>1, SamePending
    <2>2. CASE ~(level < 0)
        <3>1. (k = "transaction" /\ HasBuffer) \in BOOLEAN /\ k \in Kind /\ k # "try"
            BY DEF Kind
        <3>2. /\ frames' = Opened(k, k = "transaction" /\ HasBuffer)
              /\ buffers' = Pushed(k = "transaction" /\ HasBuffer)
              /\ level' = level + 1 /\ UNCHANGED <<pending, id, leaked, swallowed>>
            BY <1>9, <2>2 DEF Start, history
        <3>3. frames[Top].phase # "rethrow"
            BY <1>3, <1>9 DEF Start
        <3>4. /\ Broken' = Broken /\ Passing' = Passing /\ Ending' = Ending
              /\ Transactions' = Transactions \cup {Top + 1}
            BY <1>4, <3>1, <3>2, <3>3
        <3>5. Cardinality(Valid') = Cardinality(Valid) + 1 /\ Cardinality(Valid) \in Nat
            BY <1>1, <3>4, OneMore, SetFacts
        <3>6. LevelInv'
            BY <1>1, <3>2, <3>5 DEF LInv, LevelInv
        <3>7. PendingInv'
            BY <1>1, <3>2 DEF LInv, PendingInv
        <3>8. QED
            BY <1>1, <3>2, <3>4, <3>6, <3>7, SameEnd DEF LInv
    <2>3. QED
        BY <2>1, <2>2
<1>10. ASSUME frames # <<>>, frames' = Front(frames), buffers' = Popped,
              frames[Top].phase \in {"body", "end"}, frames[Top].kind # "try",
              level' = level - 1, UNCHANGED <<id, pending, leaked, swallowed>>,
              level > 1 \/ pending = {}
       PROVE  LInv'
    <2>1. /\ Broken' = Broken /\ Passing' = Passing /\ Ending' \subseteq Ending
          /\ Transactions' = Transactions \ {Top} /\ Top \notin Broken /\ Top \in Transactions
        BY <1>5, <1>10
    <2>2. Cardinality(Valid') = Cardinality(Valid) - 1 /\ Cardinality(Valid) \in Nat
        BY <1>1, <2>1, OneLess, SetFacts
    <2>3. LevelInv'
        BY <1>1, <1>10, <2>2 DEF LInv, LevelInv
    <2>4. PendingInv'
        BY <1>1, <1>10 DEF LInv, PendingInv
    <2>5. EndInv'
        BY <1>1, <1>10, <2>1, SameEnd
    <2>6. QED
        BY <2>3, <2>4, <2>5 DEF LInv
<1>11. CASE EndNested
    BY <1>3, <1>10, <1>11 DEF EndNested, BodyOver, history
<1>12. CASE Finish
    <2>1. frames # <<>> /\ frames[Top].phase = "end" /\ pending = {} /\ frames[Top].kind # "try"
        BY <1>1, <1>12, TopBuffer DEF Finish, NothingToDelete, Deleting, StackInv, PhaseInv
    <2>2. buffers' = Popped
        BY <1>1, <1>12, <2>1, TopBuffer DEF Finish, Popped, StackInv, PhaseInv
    <2>3. QED
        BY <1>10, <1>12, <2>1, <2>2 DEF Finish, history
<1>13. CASE EndOutermost
    <2>1. /\ frames # <<>> /\ frames[Top].phase = "body" /\ frames[Top].kind # "try"
          /\ buffers' = Popped /\ level <= 1 /\ Passing = {}
          /\ frames' = [frames EXCEPT ![Top].phase = "end", ![Top].pushed = FALSE]
          /\ UNCHANGED <<level, id, pending, leaked, swallowed>>
        BY <1>3, <1>13 DEF EndOutermost, BodyOver, history
    <2>2. /\ Transactions' = Transactions /\ Top \in Transactions
          /\ Broken' = Broken /\ Passing' = Passing /\ Top \notin Broken
          /\ Ending' \subseteq Ending \cup {Top}
        BY <1>1, <2>1, EndShape
    <2>3. Top \in Nat \ {0}
        BY <1>1, <2>1, TopBuffer
    <2>4. ASSUME ~swallowed, NEW j \in Transactions
          PROVE  Top <= j
        <3>1. SUFFICES ASSUME ~(Top <= j)
              PROVE  FALSE
            OBVIOUS
        <3>2. j <= Top - 1 /\ Top - 1 \in Nat /\ \A i \in Broken : i <= Top - 1
            <4>1. /\ Transactions \subseteq 1 .. Top /\ Broken \subseteq Transactions
                  /\ Top \in Nat \ {0} /\ Top \notin Broken
                BY <1>1, <2>2, <2>3, SetFacts
            <4>2. j \in 1 .. Top /\ \A i \in Broken : i \in 1 .. Top /\ i # Top
                BY <4>1
            <4>3. j <= Top - 1
                BY <3>1, <4>1, <4>2
            <4>4. QED
                BY <4>1, <4>2, <4>3
        <3>3. PICK v \in Valid : v <= Top - 1
            BY <1>1, <2>1, <3>2, InnermostIsValid
        <3>4. Top \in Valid /\ v # Top
            BY <1>1, <2>2, <3>3, SetFacts DEF Valid
        <3>5. Cardinality(Valid \ {v}) = Cardinality(Valid) - 1 /\ IsFiniteSet(Valid \ {v})
            BY <1>1, <3>3, SetFacts, FS_RemoveElement
        <3>6. Cardinality(Valid \ {v}) # 0 /\ Cardinality(Valid \ {v}) \in Nat
            BY <3>4, <3>5, FS_EmptySet, FS_CardinalityType
        <3>7. Cardinality(Valid) >= 2
            BY <1>1, <3>5, <3>6, SetFacts
        <3>8. QED
            BY <1>1, <2>1, <2>4, <3>7, SetFacts DEF LInv, LevelInv
    <2>5. EndInv'
        BY <2>1, <2>2, <2>4 DEF LInv, EndInv
    <2>6. QED
        BY <2>1, <2>2, <2>5, ValidOfSame, SameLevel, SamePending DEF LInv
<1>14. ASSUME NEW o \in Object, Dispose(o)
       PROVE  LInv'
    <2>1. /\ Passing = {} /\ Transactions # {}
          /\ UNCHANGED <<frames, level, leaked, swallowed>>
          /\ pending' = pending \cup {o} /\ id' = [id EXCEPT ![o] = "disposed"]
        BY <1>3, <1>14 DEF Dispose, history
    <2>2. ASSUME ~swallowed
          PROVE  level >= 1
        <3>1. PICK k \in Transactions : k <= Top
            BY <1>1, <2>1, SetFacts
        <3>2. \A i \in Broken : i <= Top
            BY <1>1, SetFacts
        <3>3. Valid # {}
            BY <1>1, <2>1, <3>1, <3>2, InnermostIsValid, SetFacts
        <3>4. Cardinality(Valid) # 0 /\ Cardinality(Valid) \in Nat
            BY <1>1, <3>3, SetFacts, FS_EmptySet
        <3>5. QED
            BY <1>1, <2>2, <3>4 DEF LInv, LevelInv
    <2>3. id \in [Object -> {"alive", "disposed", "doomed", "deleted"}]
        BY DEF IInv, TypeOK
    <2>4. PendingInv'
        BY <2>1, <2>2, <2>3 DEF LInv, PendingInv
    <2>5. QED
        BY <1>2, <2>1, <2>4
<1>15. ASSUME NEW o \in Object, Delete(o)
       PROVE  LInv'
    <2>1. /\ frames # <<>> /\ frames[Top].phase \in {"end", "abort"} /\ buffers' = buffers
          /\ frames[Top] \in Frame /\ UNCHANGED <<level, leaked, swallowed>>
        BY <1>1, <1>15, TopBuffer DEF Delete, Deleting, history
    <2>2. frames' = [frames EXCEPT ![Top] = [@ EXCEPT !.phase = frames[Top].phase,
                                                      !.doomed = frames[Top].doomed \ {o}]]
        BY <1>15, <2>1 DEF Delete, Frame
    <2>3. frames[Top].doomed \ {o} \in SUBSET Object
        BY <2>1 DEF Frame
    <2>4. id \in [Object -> {"alive", "disposed", "doomed", "deleted"}]
        BY DEF IInv, TypeOK
    <2>5. PendingInv'
        BY <1>15, <2>4 DEF Delete, LInv, PendingInv, history
    <2>6. QED
        BY <1>6, <2>1, <2>2, <2>3, <2>5
<1>16. CASE Allocate
    BY <1>2, <1>16, SamePending DEF Allocate, history
<1>17. CASE Collect
    <2>1. /\ frames # <<>> /\ frames[Top].phase \in {"end", "abort"} /\ buffers' = buffers
          /\ frames[Top] \in Frame /\ UNCHANGED <<level, leaked, swallowed>>
        BY <1>1, <1>17, TopBuffer DEF Collect, Deleting, history
    <2>2. frames' = [frames EXCEPT ![Top] = [@ EXCEPT !.phase = frames[Top].phase,
                                                      !.doomed = Condemned]]
        BY <1>17, <2>1 DEF Collect, Frame
    <2>3. Condemned \in SUBSET Object
        BY CondemnedObjects DEF IInv, TypeOK
    <2>4. \A o \in Object : o \in pending \ Headed /\ id[o] = "disposed" => o \in Condemned
        BY DEF Condemned
    <2>5. PendingInv'
        BY <1>17, <2>4 DEF Collect, LInv, PendingInv, history
    <2>6. QED
        BY <1>6, <2>1, <2>2, <2>3, <2>5
<1>18. CASE FinishAbort
    <2>1. level' = level - 1 /\ pending = {} /\ UNCHANGED <<leaked, swallowed, pending, id>>
        BY <1>18 DEF FinishAbort, NothingToDelete, history
    <2>2. /\ Transactions' = Transactions /\ Broken' = Broken /\ Ending' \subseteq Ending
          /\ Passing = {} /\ Top \in Broken /\ Valid' = {}
        BY <1>1, <1>18, PassShape
    <2>3. \A v \in Valid : v = Top
        BY <1>1, <2>2, SetFacts DEF Valid
    <2>4. Top \in Valid
        BY <1>1, <2>2, SetFacts DEF Valid
    <2>5. Valid = {Top}
        BY <2>3, <2>4
    <2>6. Cardinality(Valid) = 1 /\ Cardinality(Valid') = 0
        BY <2>2, <2>5, FS_Singleton, FS_EmptySet
    <2>7. LevelInv'
        BY <1>1, <2>1, <2>6 DEF LInv, LevelInv
    <2>8. PendingInv'
        BY <2>1 DEF LInv, PendingInv
    <2>9. EndInv'
        BY <1>1, <2>1, <2>2, SameEnd
    <2>10. QED
        BY <2>7, <2>8, <2>9 DEF LInv
<1>19. CASE Throw
    <2>1. buffers # <<>> /\ Jump /\ Passing = {}
        BY <1>3, <1>19 DEF Throw
    <2>2. CASE Caught
        <3>1. /\ leaked' \in BOOLEAN /\ (leaked' = FALSE => leaked = FALSE)
              /\ (~leaked' => \A k \in Transactions : ~(k > Target))
            BY <1>1, <1>19, <2>2 DEF Throw
        <3>2. Target \in 1 .. Top
            BY <1>1, <2>1, JumpShape
        <3>3. ~leaked' => \A k \in Transactions : k <= Target
            BY <1>1, <3>1, <3>2, SetFacts
        <3>4. QED
            BY <1>1, <2>1, <2>2, <3>1, <3>3, CaughtLevel, JumpPending, JumpEnd DEF LInv
    <2>3. CASE ~Caught
        BY <1>1, <2>1, <2>3, UncaughtLevel, JumpPending, JumpEnd DEF LInv
    <2>4. QED
        BY <2>2, <2>3
<1>20. CASE Rethrow
    <2>1. buffers # <<>> /\ Jump /\ frames # <<>> /\ frames[Top].phase = "rethrow"
        BY <1>20 DEF Rethrow
    <2>2. Passing = {Top} /\ Top \in Broken
        BY <1>1, <2>1, TopBuffer, SetFacts DEF Passing, Broken
    <2>3. CASE Caught
        <3>1. /\ leaked' \in BOOLEAN /\ (leaked' = FALSE => leaked = FALSE)
            BY <1>1, <1>20, <2>3 DEF Rethrow
        <3>2. QED
            BY <1>1, <2>1, <2>2, <2>3, <3>1, CaughtLevel, JumpPending, JumpEnd DEF LInv
    <2>4. CASE ~Caught
        BY <1>1, <2>1, <2>4, UncaughtLevel, JumpPending, JumpEnd DEF LInv
    <2>5. QED
        BY <2>3, <2>4
<1>21. CASE UNCHANGED vars
    BY <1>2, <1>21, SamePending DEF vars
<1>22. QED
    BY <1>7, <1>8, <1>9, <1>11, <1>12, <1>13, <1>14, <1>15, <1>16, <1>17, <1>18, <1>19, <1>20, <1>21
    DEF Next, Undefined

LEMMA LInvInit == Init => LInv
<1> SUFFICES ASSUME Init PROVE LInv
    OBVIOUS
<1>1. DOMAIN frames = {}
    BY DEF Init
<1>2. Valid = {} /\ Ending = {}
    BY <1>1 DEF Valid, Transactions, Ending
<1>3. Cardinality(Valid) = 0
    BY <1>2, FS_EmptySet
<1>4. QED
    BY <1>2, <1>3 DEF Init, LInv, LevelInv, PendingInv, EndInv

LEMMA LInvAlways == Spec => [](IInv /\ LInv)
<1>1. Init => IInv /\ LInv
    BY IInvInit, LInvInit
<1>2. IInv /\ LInv /\ [Next]_vars => (IInv /\ LInv)'
    BY IInvStep, LInvStep
<1>3. QED
    BY <1>1, <1>2, PTL DEF Spec

\* When the event has been handled, nothing is left to be deleted but what has
\* a header, however many transactions were nested and wherever errors came.
THEOREM AllDeleted == Spec => []NothingLeft
<1>1. ASSUME IInv, LInv PROVE NothingLeft
    <2> SUFFICES ASSUME frames = <<>>, ~leaked, ~swallowed
        PROVE  pending = {} /\ \A o \in Object : id[o] = "disposed" => o \in Headed
        BY DEF NothingLeft
    <2>1. Valid = {}
        BY DEF Valid, Transactions
    <2>2. level <= 0 /\ level \in Int
        BY <1>1, <2>1, FS_EmptySet DEF LInv, LevelInv, IInv, TypeOK
    <2>3. pending = {}
        BY <1>1, <2>2 DEF LInv, PendingInv
    <2>4. QED
        BY <1>1, <2>3 DEF LInv, PendingInv
<1>2. QED
    BY <1>1, LInvAlways, PTL

\* Without an error, only the end of all transactions deletes.
THEOREM DeletesAtTheEnd == Spec => OnlyOutermostDeletes
<1>1. ASSUME IInv, LInv, [Next]_vars,
             NEW o \in Object, id[o] # "deleted", id'[o] = "deleted",
             ~swallowed, frames[Top].phase # "abort"
      PROVE  Transactions = {Top}
    <2>1. id \in [Object -> {"alive", "disposed", "doomed", "deleted"}] /\ StackInv
        BY <1>1, StackOfIInv DEF IInv, TypeOK
    <2>2. \E x \in Object : Delete(x)
        <3>1. id' # id
            BY <1>1
        <3>2. ~Collect
            BY <1>1, <2>1 DEF Collect
        <3>3. \A x \in Object : ~Dispose(x)
            BY <1>1, <2>1 DEF Dispose
        <3>4. ~Jump
            BY <3>1 DEF Jump
        <3>5. ~Throw /\ ~Rethrow
            BY <3>4 DEF Throw, Rethrow
        <3>6. QED
            BY <1>1, <3>1, <3>2, <3>3, <3>5
            DEF Next, vars, BeginTry, EndTry, Start, EndNested, EndOutermost, Finish, Allocate,
                FinishAbort, Undefined
    <2>3. frames # <<>> /\ frames[Top].phase = "end"
        BY <1>1, <2>2 DEF Delete, Deleting
    <2>4. Top \in DOMAIN frames /\ Top \in Nat
        BY <2>1, <2>3, TopBuffer
    <2>5. Top \in Ending
        BY <2>3, <2>4 DEF Ending
    <2>6. \A j \in Transactions : j = Top
        BY <1>1, <2>1, <2>4, <2>5, SetFacts DEF LInv, EndInv
    <2>7. Top \in Transactions
        BY <2>1, <2>5, SetFacts
    <2>8. QED
        BY <2>6, <2>7
<1>2. ASSUME IInv, LInv, [Next]_vars
      PROVE  [(\E o \in Object : id[o] # "deleted" /\ id'[o] = "deleted") =>
                swallowed \/ frames[Top].phase = "abort" \/ Transactions = {Top}]_vars
    BY <1>1, <1>2
<1>3. QED
    BY <1>2, LInvAlways, PTL DEF Spec, OnlyOutermostDeletes

-----------------------------------------------------------------------------
(* The memory of the objects of class transactional. *)

\* The transactions still to end that have begun inside the first n constructs.
Inside(n) == {v \in Valid : v > n}

\* The pool still holds the block.
Fits(b, p) == b.chunk <= p.chunk /\ (b.chunk = p.chunk => b.place <= p.used)

\* A block belongs to a construct inside some transaction.
OwnerInv == \A b \in blocks : b.owner <= Top /\ \E k \in Transactions : k <= b.owner

\* The end of each transaction inside the owner of a block cuts the memory back
\* to what was saved after the block had been made, wherever levels were lost.
FitInv ==
    \A b \in blocks :
        /\ Fits(b, pool)
        /\ \A l \in 1 .. level - 1 : level - Cardinality(Inside(b.owner)) <= l => Fits(b, saved[l])

ApartInv == \A b, c \in blocks : b.chunk = c.chunk /\ b.place = c.place => b = c

MInv == ~swallowed => OwnerInv /\ FitInv /\ ApartInv

LEMMA InsideFacts ==
    ASSUME StackInv, NEW n \in Nat
    PROVE  IsFiniteSet(Inside(n)) /\ Cardinality(Inside(n)) \in Nat
<1>1. Inside(n) \in SUBSET Valid
    BY DEF Inside
<1>2. QED
    BY <1>1, SetFacts, FS_Subset, FS_CardinalityType

\* A step that begins no transaction leaves no more of them inside.
LEMMA FewerInside ==
    ASSUME StackInv, Valid' \subseteq Valid, NEW n \in Nat
    PROVE  Cardinality(Inside(n)') <= Cardinality(Inside(n)) /\ Cardinality(Inside(n)') \in Nat
<1>1. Inside(n)' \in SUBSET Inside(n)
    BY DEF Inside
<1>2. QED
    BY <1>1, InsideFacts, FS_Subset, FS_CardinalityType

\* No memory is touched, and no transaction begins.
LEMMA SameMemory ==
    ASSUME IInv, MInv, ~swallowed' => ~swallowed,
           UNCHANGED <<level, pool, saved>>,
           Valid' \subseteq Valid, blocks' \subseteq blocks, OwnerInv'
    PROVE  MInv'
<1> SUFFICES ASSUME ~swallowed'
    PROVE  FitInv' /\ ApartInv'
    BY DEF MInv
<1>1. FitInv /\ ApartInv
    BY DEF MInv
<1>2. ApartInv'
    BY <1>1 DEF ApartInv
<1>3. ASSUME NEW b \in blocks'
      PROVE  /\ Fits(b, pool')
             /\ \A l \in 1 .. level' - 1 :
                    level' - Cardinality(Inside(b.owner)') <= l => Fits(b, saved'[l])
    <2>1. b \in blocks /\ b.owner \in Nat /\ level \in Int /\ StackInv
        BY <1>3, StackOfIInv DEF IInv, TypeOK
    <2>2. /\ Cardinality(Inside(b.owner)') <= Cardinality(Inside(b.owner))
          /\ Cardinality(Inside(b.owner)') \in Nat /\ Cardinality(Inside(b.owner)) \in Nat
        BY <2>1, FewerInside, InsideFacts
    <2>3. Fits(b, pool')
        BY <1>1, <2>1 DEF FitInv
    <2>4. ASSUME NEW l \in 1 .. level' - 1, level' - Cardinality(Inside(b.owner)') <= l
          PROVE  Fits(b, saved'[l])
        <3>1. l \in 1 .. level - 1 /\ level - Cardinality(Inside(b.owner)) <= l
            BY <2>1, <2>2, <2>4
        <3>2. QED
            BY <1>1, <2>1, <3>1 DEF FitInv
    <2>5. QED
        BY <2>3, <2>4
<1>4. FitInv'
    BY <1>3 DEF FitInv, Fits
<1>5. QED
    BY <1>2, <1>4

\* A construct has been opened or goes on, and the owners are where they were.
LEMMA SameOwners ==
    ASSUME IInv, MInv, ~swallowed, blocks' \subseteq blocks,
           Transactions \subseteq Transactions', Top' \in {Top, Top + 1}
    PROVE  OwnerInv'
<1>1. Top \in Nat /\ OwnerInv /\ Top <= Top'
    BY StackOfIInv, SetFacts DEF MInv
<1>2. ASSUME NEW b \in blocks' PROVE b.owner <= Top' /\ \E k \in Transactions' : k <= b.owner
    <2>1. b.owner \in Nat /\ b.owner <= Top /\ \E k \in Transactions : k <= b.owner
        BY <1>1, <1>2 DEF OwnerInv, IInv, TypeOK
    <2>2. QED
        BY <1>1, <2>1
<1>3. QED
    BY <1>2 DEF OwnerInv

\* The constructs from n on are over, and what they own.
LEMMA CutOwners ==
    ASSUME IInv, MInv, ~swallowed, NEW n \in Nat, n <= Top, blocks' = Kept(n), Top' = n,
           \A k \in Transactions : k <= n => k \in Transactions'
    PROVE  OwnerInv'
<1>1. Transactions \subseteq 1 .. Top /\ Top \in Nat /\ OwnerInv
    BY StackOfIInv, SetFacts DEF MInv
<1>2. ASSUME NEW b \in blocks' PROVE b.owner <= Top' /\ \E k \in Transactions' : k <= b.owner
    <2>1. b \in blocks /\ b.owner <= n /\ b.owner \in Nat
        BY <1>2 DEF Kept, IInv, TypeOK
    <2>2. PICK k \in Transactions : k <= b.owner
        BY <1>1, <2>1 DEF OwnerInv
    <2>3. k \in Int
        BY <1>1
    <2>4. k \in Transactions'
        BY <2>1, <2>2, <2>3
    <2>5. QED
        BY <2>1, <2>2, <2>4
<1>3. QED
    BY <1>2 DEF OwnerInv

LEMMA NoBlocks ==
    ASSUME blocks' = {}
    PROVE  MInv'
BY DEF MInv, OwnerInv, FitInv, ApartInv

\* Where code runs at level zero there are no blocks: the next start may empty
\* the pool.
LEMMA NoBlocksAtZero ==
    ASSUME IInv, LInv, MInv, ~swallowed, Passing = {}, level <= 0
    PROVE  blocks = {}
<1>1. StackInv /\ level \in Int /\ OwnerInv
    BY StackOfIInv DEF IInv, TypeOK, MInv
<1>2. ASSUME NEW b \in blocks PROVE FALSE
    <2>1. PICK k \in Transactions : k <= b.owner
        BY <1>1, <1>2 DEF OwnerInv
    <2>2. /\ k \in 1 .. Top /\ Top \in Nat /\ Broken \subseteq 1 .. Top
          /\ IsFiniteSet(Valid) /\ Cardinality(Valid) \in Nat
        BY <1>1, SetFacts
    <2>3. k <= Top /\ \A i \in Broken : i <= Top
        BY <2>2
    <2>4. Valid # {}
        BY <1>1, <2>2, <2>3, InnermostIsValid
    <2>5. Cardinality(Valid) # 0
        BY <2>2, <2>4, FS_EmptySet
    <2>6. QED
        BY <1>1, <2>2, <2>5 DEF LInv, LevelInv
<1>3. QED
    BY <1>2

LEMMA StartMemory ==
    ASSUME IInv, LInv, MInv, NEW k \in {"transaction", "bare"}, Start(k)
    PROVE  MInv'
<1>1. /\ StackInv /\ level \in Int /\ level < MaxLevel /\ MaxLevel \in Nat
      /\ saved \in [0 .. MaxLevel - 1 -> Pool]
    BY StackOfIInv, TransactionAssumption DEF IInv, TypeOK, Start
<1>2. swallowed' = swallowed /\ blocks' = blocks
    BY DEF Start, history
<1> SUFFICES ASSUME ~swallowed
    PROVE  MInv'
    BY <1>2 DEF MInv
<1>3. OwnerInv /\ FitInv /\ ApartInv
    BY DEF MInv
<1>4. frames # <<>> /\ frames[Top].phase # "rethrow" /\ Passing = {}
    BY <1>1, RunningFacts DEF Start, Running
<1>5. CASE level < 0
    <2>1. UNCHANGED <<frames, level, pool, saved>>
        BY <1>5 DEF Start, memory
    <2>2. Valid' = Valid /\ Transactions' = Transactions /\ Top' = Top
        BY <2>1 DEF Valid, Transactions, Broken, Passing, Top
    <2>3. OwnerInv'
        BY <1>2, <2>2, SameOwners
    <2>4. QED
        BY <1>2, <2>1, <2>2, <2>3, SameMemory
<1>6. CASE ~(level < 0)
    <2>1. (k = "transaction" /\ HasBuffer) \in BOOLEAN /\ k \in Kind /\ k # "try"
        BY DEF Kind
    <2>2. /\ frames' = Opened(k, k = "transaction" /\ HasBuffer)
          /\ buffers' = Pushed(k = "transaction" /\ HasBuffer)
          /\ level' = level + 1 /\ saved' = [saved EXCEPT ![level] = pool']
          /\ pool' = IF level = 0 THEN EmptyPool ELSE pool
        BY <1>6 DEF Start
    <2>3. /\ Broken' = Broken /\ Passing' = Passing /\ Top' = Top + 1
          /\ Transactions' = Transactions \cup {Top + 1}
        BY <1>1, <1>4, <2>1, <2>2, OpenShape
    <2>4. OwnerInv'
        BY <1>2, <2>3, SameOwners
    <2>5. ApartInv'
        BY <1>2, <1>3 DEF ApartInv
    <2>6. ASSUME NEW b \in blocks
          PROVE  /\ Fits(b, pool')
                 /\ \A l \in 1 .. level' - 1 :
                        level' - Cardinality(Inside(b.owner)') <= l => Fits(b, saved'[l])
        <3>1. level # 0 /\ pool' = pool
            BY <1>1, <1>4, <1>6, <2>2, <2>6, NoBlocksAtZero
        <3>2. Fits(b, pool')
            BY <1>3, <3>1 DEF FitInv
        <3>3. /\ b.owner \in Nat /\ b.owner <= Top /\ Top \in Nat
              /\ Valid \subseteq 1 .. Top /\ Broken \subseteq 1 .. Top
              /\ Passing \subseteq 1 .. Top /\ Transactions \subseteq 1 .. Top
            BY <1>1, <1>3, SetFacts DEF OwnerInv, IInv, TypeOK
        <3>4. Cardinality(Inside(b.owner)') = Cardinality(Inside(b.owner)) + 1
            <4>1. Valid' = Valid \cup {Top + 1}
                BY <2>3, <3>3 DEF Valid
            <4>2. Inside(b.owner)' = Inside(b.owner) \cup {Top + 1}
                BY <3>3, <4>1 DEF Inside
            <4>3. Top + 1 \notin Inside(b.owner)
                BY <3>3 DEF Inside
            <4>4. QED
                BY <1>1, <3>3, <4>2, <4>3, InsideFacts, FS_AddElement
        <3>5. ASSUME NEW l \in 1 .. level' - 1, level' - Cardinality(Inside(b.owner)') <= l
              PROVE  Fits(b, saved'[l])
            <4>1. CASE l = level
                <5>1. saved'[l] = pool'
                    BY <1>1, <1>6, <2>2, <4>1
                <5>2. QED
                    BY <3>2, <5>1
            <4>2. CASE l # level
                <5>1. l \in 1 .. level - 1 /\ level - Cardinality(Inside(b.owner)) <= l
                    <6>1. Cardinality(Inside(b.owner)) \in Nat
                        BY <1>1, <3>3, InsideFacts
                    <6>2. QED
                        BY <1>1, <2>2, <3>4, <3>5, <4>2, <6>1
                <5>2. saved'[l] = saved[l]
                    BY <1>1, <2>2, <4>2, <5>1
                <5>3. QED
                    BY <1>3, <5>1, <5>2 DEF FitInv
            <4>3. QED
                BY <4>1, <4>2
        <3>6. QED
            BY <3>2, <3>5
    <2>7. FitInv'
        BY <1>2, <2>6 DEF FitInv, Fits
    <2>8. QED
        BY <2>4, <2>5, <2>7 DEF MInv
<1>7. QED
    BY <1>5, <1>6

LEMMA EndNestedMemory ==
    ASSUME IInv, LInv, MInv, EndNested
    PROVE  MInv'
<1>1. StackInv /\ level \in Int /\ level > 1
    BY StackOfIInv DEF IInv, TypeOK, EndNested
<1>2. /\ swallowed' = swallowed /\ blocks' = Kept(Top - 1) /\ saved' = saved
      /\ level' = level - 1 /\ pool' = saved[level - 1]
    BY DEF EndNested, history
<1> SUFFICES ASSUME ~swallowed
    PROVE  MInv'
    BY <1>2 DEF MInv
<1>3. OwnerInv /\ FitInv /\ ApartInv
    BY DEF MInv
<1>4. /\ frames # <<>> /\ frames[Top].phase = "body" /\ frames[Top].kind # "try"
      /\ frames' = Front(frames) /\ buffers' = Popped
    BY DEF EndNested, BodyOver, Running
<1>5. /\ Broken' = Broken /\ Passing' = Passing /\ Top' = Top - 1
      /\ Transactions' = Transactions \ {Top} /\ Top \notin Broken /\ Top \in Transactions
    BY <1>1, <1>4, CloseShape
<1>6. /\ Transactions \subseteq 1 .. Top /\ Broken \subseteq 1 .. Top /\ Passing \subseteq Broken
      /\ Top \in Nat /\ Top - 1 \in Nat
    BY <1>1, <1>4, SetFacts, TopBuffer
<1>7. Top \in Valid /\ Valid' = Valid \ {Top}
    BY <1>5, <1>6 DEF Valid
<1>8. OwnerInv'
    <2>1. \A k \in Transactions : k <= Top - 1 => k \in Transactions'
        BY <1>5, <1>6
    <2>2. QED
        BY <1>2, <1>5, <1>6, <2>1, CutOwners
<1>9. ApartInv'
    BY <1>2, <1>3 DEF ApartInv, Kept
<1>10. ASSUME NEW b \in blocks'
       PROVE  /\ Fits(b, pool')
              /\ \A l \in 1 .. level' - 1 :
                     level' - Cardinality(Inside(b.owner)') <= l => Fits(b, saved'[l])
    <2>1. b \in blocks /\ b.owner \in Nat /\ b.owner <= Top - 1
        BY <1>2, <1>10 DEF Kept, IInv, TypeOK
    <2>2. Top \in Inside(b.owner) /\ Inside(b.owner)' = Inside(b.owner) \ {Top}
        BY <1>6, <1>7, <2>1 DEF Inside
    <2>3. IsFiniteSet(Inside(b.owner)) /\ Cardinality(Inside(b.owner)) \in Nat
        BY <1>1, <2>1, InsideFacts
    <2>4. Cardinality(Inside(b.owner)') = Cardinality(Inside(b.owner)) - 1
        BY <2>2, <2>3, FS_RemoveElement
    <2>5. Cardinality(Inside(b.owner)) >= 1
        BY <2>2, <2>3, FS_EmptySet
    <2>6. \A l \in 1 .. level - 1 : level - Cardinality(Inside(b.owner)) <= l => Fits(b, saved[l])
        BY <1>3, <2>1 DEF FitInv
    <2>7. Fits(b, pool')
        <3>1. level - 1 \in 1 .. level - 1 /\ level - Cardinality(Inside(b.owner)) <= level - 1
            BY <1>1, <2>3, <2>5
        <3>2. QED
            BY <1>2, <2>6, <3>1
    <2>8. ASSUME NEW l \in 1 .. level' - 1, level' - Cardinality(Inside(b.owner)') <= l
          PROVE  Fits(b, saved'[l])
        <3>1. l \in 1 .. level - 1 /\ level - Cardinality(Inside(b.owner)) <= l
            BY <1>1, <1>2, <2>3, <2>4, <2>8
        <3>2. QED
            BY <1>2, <2>6, <3>1
    <2>9. QED
        BY <2>7, <2>8
<1>11. FitInv'
    BY <1>10 DEF FitInv, Fits
<1>12. QED
    BY <1>8, <1>9, <1>11 DEF MInv

LEMMA AllocateMemory ==
    ASSUME IInv, MInv, Allocate
    PROVE  MInv'
<1>1. StackInv /\ level \in Int /\ Top \in Nat /\ pool \in Pool
    BY StackOfIInv, SetFacts DEF IInv, TypeOK
<1>2. /\ UNCHANGED <<frames, level, saved, swallowed>>
      /\ Transactions' = Transactions /\ Top' = Top
    BY DEF Allocate, history, Transactions, Top
<1> SUFFICES ASSUME ~swallowed
    PROVE  MInv'
    BY <1>2 DEF MInv
<1>3. OwnerInv /\ FitInv /\ ApartInv
    BY DEF MInv
<1> DEFINE new == [owner |-> Top, chunk |-> pool'.chunk, place |-> pool'.used]
<1>4. blocks' = blocks \cup {new}
    BY DEF Allocate
<1>5. new.owner = Top /\ new.chunk = pool'.chunk /\ new.place = pool'.used
    OBVIOUS
<1> HIDE DEF new
<1>6. pool.chunk \in Nat /\ pool.used \in Nat
    BY <1>1 DEF Pool
<1>7. \/ pool'.chunk = pool.chunk /\ pool'.used = pool.used + 1
      \/ pool'.chunk = pool.chunk + 1 /\ pool'.used = 1
    BY <1>1 DEF Allocate, Pool
<1>8. ASSUME NEW b \in blocks
      PROVE  Fits(b, pool') /\ ~(b.chunk = new.chunk /\ b.place = new.place)
    <2>1. b.chunk \in Nat /\ b.place \in Nat /\ Fits(b, pool)
        BY <1>3, <1>8 DEF FitInv, IInv, TypeOK
    <2>2. QED
        BY <1>5, <1>6, <1>7, <2>1 DEF Fits
<1>9. ApartInv'
    BY <1>3, <1>4, <1>8 DEF ApartInv
<1>10. OwnerInv'
    <2>1. \E k \in Transactions : k <= Top
        BY <1>1, SetFacts DEF Allocate
    <2>2. QED
        BY <1>1, <1>2, <1>3, <1>4, <1>5, <2>1 DEF OwnerInv
<1>11. Valid' = Valid
    BY <1>2 DEF Valid, Transactions, Broken, Passing
<1>12. ASSUME NEW b \in blocks'
       PROVE  /\ Fits(b, pool')
              /\ \A l \in 1 .. level' - 1 :
                     level' - Cardinality(Inside(b.owner)') <= l => Fits(b, saved'[l])
    <2>1. CASE b \in blocks
        <3>1. Inside(b.owner)' = Inside(b.owner)
            BY <1>11 DEF Inside
        <3>2. QED
            BY <1>2, <1>3, <1>8, <2>1, <3>1 DEF FitInv
    <2>2. CASE b = new
        <3>1. Fits(b, pool')
            BY <1>5, <1>6, <1>7, <2>2 DEF Fits
        <3>2. Inside(b.owner)' = {}
            BY <1>1, <1>5, <1>11, <2>2, SetFacts DEF Inside
        <3>3. Cardinality(Inside(b.owner)') = 0
            BY <3>2, FS_EmptySet
        <3>4. QED
            BY <1>1, <1>2, <3>1, <3>3
    <2>3. QED
        BY <1>4, <2>1, <2>2
<1>13. FitInv'
    BY <1>12 DEF FitInv, Fits
<1>14. QED
    BY <1>9, <1>10, <1>13 DEF MInv

LEMMA JumpMemory ==
    ASSUME IInv, LInv, MInv, buffers # <<>>, Jump
    PROVE  MInv'
<1>1. StackInv /\ level \in Int /\ swallowed \in BOOLEAN
    BY StackOfIInv DEF IInv, TypeOK
<1>2. UNCHANGED <<pool, saved>> /\ (~swallowed' => ~swallowed /\ ~(Caught /\ Swallows))
    <2>1. UNCHANGED <<pool, saved>> /\ swallowed' = (swallowed \/ (Caught /\ Swallows))
        BY DEF Jump, memory
    <2> HIDE DEF Caught, Swallows
    <2>2. QED
        BY <1>1, <2>1, Zenon
<1> SUFFICES ASSUME ~swallowed'
    PROVE  MInv'
    BY DEF MInv
<1>3. ~swallowed /\ OwnerInv /\ FitInv /\ ApartInv
    BY <1>2 DEF MInv
<1>4. /\ Target \in 1 .. Top /\ Top \in Nat /\ StackInv'
      /\ Transactions \subseteq 1 .. Top /\ Broken \subseteq Transactions /\ Passing \subseteq Broken
      /\ Passing \subseteq {Top}
    BY <1>1, JumpShape, JumpStack, SetFacts
<1>5. CASE Caught
    <2>1. /\ Transactions' = {k \in Transactions : k < Target} /\ Target \notin Transactions
          /\ Broken' = {k \in Broken : k < Target} /\ Passing' = {}
          /\ blocks' = Kept(Target - 1) /\ level' = level /\ Top' = Target - 1
        <3>1. /\ Transactions' = {k \in Transactions : k < Target} /\ Target \notin Transactions
              /\ Broken' = {k \in Broken : k < Target} /\ Passing' = {}
            BY <1>1, <1>5, JumpShape
        <3>2. DOMAIN frames' = 1 .. Target - 1
            BY <1>1, <1>5, JumpStack
        <3>3. Top' = Target - 1
            BY <1>4, <3>2 DEF StackInv, StackTypes, Top
        <3>4. QED
            BY <1>5, <3>1, <3>3 DEF Jump
    <2>2. ASSUME NEW i \in Broken, i > Target
          PROVE  blocks' = {}
        <3>1. frames[i].phase \in {"abort", "rethrow"} /\ i \in DOMAIN frames
            BY <2>2 DEF Broken
        <3>2. \A k \in Transactions : ~(k < Target)
            BY <1>2, <1>5, <2>2, <3>1 DEF Swallows
        <3>3. ASSUME NEW b \in blocks, b.owner <= Target - 1
              PROVE  FALSE
            <4>1. PICK k \in Transactions : k <= b.owner
                BY <1>3, <3>3 DEF OwnerInv
            <4>2. b.owner \in Nat /\ k \in Int
                BY <1>4, <3>3 DEF IInv, TypeOK
            <4>3. QED
                BY <1>4, <3>2, <3>3, <4>1, <4>2
        <3>4. QED
            BY <2>1, <3>3 DEF Kept
    <2>3. ASSUME \A i \in Broken : ~(i > Target)
          PROVE  MInv'
        <3>1. \A i \in Broken : i < Target
            <4>1. \A i \in Broken : i \in 1 .. Top /\ i # Target
                BY <1>4, <2>1
            <4>2. QED
                BY <1>4, <2>3, <4>1
        <3>2. ASSUME NEW v \in Valid' PROVE v \in Valid
            <4>1. v \in Transactions /\ v < Target /\ \A i \in Broken' : i <= v
                BY <2>1 DEF Valid
            <4>2. \A i \in Broken : i <= v
                BY <2>1, <3>1, <4>1
            <4>3. v # Top
                BY <1>4, <4>1
            <4>4. QED
                BY <1>4, <4>1, <4>2, <4>3 DEF Valid
        <3>3. \A k \in Transactions : k <= Target - 1 => k \in Transactions'
            BY <1>4, <2>1
        <3>4. Target - 1 \in Nat /\ Target - 1 <= Top
            BY <1>4
        <3>5. OwnerInv'
            BY <1>3, <2>1, <3>3, <3>4, CutOwners
        <3>6. blocks' \subseteq blocks
            BY <2>1 DEF Kept
        <3>7. QED
            BY <1>1, <1>2, <2>1, <3>2, <3>5, <3>6, SameMemory
    <2>4. QED
        BY <2>2, <2>3, NoBlocks
<1>6. CASE ~Caught
    <2>1. /\ Transactions' = {k \in Transactions : k <= Target}
          /\ blocks' = Kept(Target) /\ level' \in {0, 1} /\ Top' = Target
        <3>1. Transactions' = {k \in Transactions : k <= Target}
            BY <1>1, <1>6, JumpShape
        <3>2. DOMAIN frames' = 1 .. Target /\ Top' = Target
            BY <1>1, <1>6, JumpStack
        <3>3. QED
            BY <1>6, <3>1, <3>2 DEF Jump
    <2>2. OwnerInv'
        BY <1>3, <1>4, <2>1, CutOwners
    <2>3. ApartInv'
        BY <1>3, <2>1 DEF ApartInv, Kept
    <2>4. level' = 0 \/ level' = 1
        BY <2>1
    <2>5. \A l \in 1 .. level' - 1 : FALSE
        <3>1. CASE level' = 0
            BY <3>1
        <3>2. CASE level' = 1
            BY <3>2
        <3>3. QED
            BY <2>4, <3>1, <3>2
    <2>6. FitInv'
        BY <1>2, <1>3, <2>1, <2>5 DEF FitInv, Fits, Kept
    <2>7. QED
        BY <2>2, <2>3, <2>6 DEF MInv
<1>7. QED
    BY <1>5, <1>6

LEMMA MInvStep ==
    ASSUME IInv, LInv, MInv, [Next]_vars
    PROVE  MInv'
<1>1. StackInv /\ swallowed \in BOOLEAN /\ level \in Int
    BY StackOfIInv DEF IInv, TypeOK
<1>2. ASSUME UNCHANGED <<frames, level, memory, blocks, swallowed>>
      PROVE  MInv'
    <2>1. Valid' = Valid /\ Transactions' = Transactions /\ Top' = Top
        BY <1>2 DEF Valid, Transactions, Broken, Passing, Top
    <2>2. ~swallowed => OwnerInv'
        BY <1>2, <2>1, SameOwners
    <2>3. CASE swallowed
        BY <1>2, <2>3 DEF MInv
    <2>4. CASE ~swallowed
        BY <1>1, <1>2, <2>1, <2>2, <2>4, SameMemory DEF memory
    <2>5. QED
        BY <1>1, <2>3, <2>4
<1>3. ASSUME UNCHANGED <<level, memory, swallowed>>, blocks' \subseteq blocks,
             Transactions' = Transactions, Broken' = Broken, Passing' = Passing,
             ~swallowed => OwnerInv'
      PROVE  MInv'
    <2>1. CASE swallowed
        BY <1>3, <2>1 DEF MInv
    <2>2. CASE ~swallowed
        <3>1. Valid' = Valid
            BY <1>3, ValidOfSame
        <3>2. QED
            BY <1>1, <1>3, <2>2, <3>1, SameMemory DEF memory
    <2>3. QED
        BY <1>1, <2>1, <2>2
<1>4. CASE BeginTry
    <2>1. frames = <<>> \/ frames[Top].phase # "rethrow"
        BY <1>4 DEF BeginTry, Running
    <2>2. HasBuffer \in BOOLEAN /\ "try" \in Kind
        BY DEF HasBuffer, Kind
    <2>3. /\ Broken' = Broken /\ Passing' = Passing /\ Transactions' = Transactions
          /\ Top' = Top + 1
        BY <1>1, <1>4, <2>1, <2>2, OpenShape DEF BeginTry
    <2>4. UNCHANGED <<level, memory, blocks, swallowed>>
        BY <1>4 DEF BeginTry, history
    <2>5. ~swallowed => OwnerInv'
        BY <2>3, <2>4, SameOwners
    <2>6. QED
        BY <1>3, <2>3, <2>4, <2>5
<1>5. CASE EndTry
    <2>1. /\ frames # <<>> /\ frames[Top].phase = "body" /\ frames[Top].kind = "try"
          /\ frames' = Front(frames) /\ buffers' = Popped
        BY <1>5 DEF EndTry, BodyOver, Running
    <2>2. /\ Broken' = Broken /\ Passing' = Passing /\ Transactions' = Transactions
          /\ Top' = Top - 1
        BY <1>1, <2>1, CloseShape
    <2>3. UNCHANGED <<level, memory, swallowed>> /\ blocks' = Kept(Top - 1)
        BY <1>5 DEF EndTry, history
    <2>4. Top - 1 \in Nat /\ Top - 1 <= Top
        BY <1>1, <2>1, TopBuffer
    <2>5. ~swallowed => OwnerInv'
        BY <2>2, <2>3, <2>4, CutOwners
    <2>6. QED
        BY <1>3, <2>2, <2>3, <2>5 DEF Kept
<1>6. CASE EndOutermost
    <2>1. /\ frames # <<>> /\ frames[Top].phase = "body" /\ frames[Top].kind # "try"
          /\ buffers' = Popped
          /\ frames' = [frames EXCEPT ![Top].phase = "end", ![Top].pushed = FALSE]
          /\ UNCHANGED <<level, memory, blocks, swallowed>>
        BY <1>6 DEF EndOutermost, BodyOver, Running, history
    <2>2. /\ Transactions' = Transactions /\ Broken' = Broken /\ Passing' = Passing
          /\ Top' = Top
        BY <1>1, <2>1, EndShape
    <2>3. ~swallowed => OwnerInv'
        BY <2>1, <2>2, SameOwners
    <2>4. QED
        BY <1>3, <2>1, <2>2, <2>3
<1>7. CASE Finish
    <2>1. frames # <<>> /\ frames[Top].phase = "end" /\ blocks' = Kept(Top - 1) /\ swallowed' = swallowed
        BY <1>7 DEF Finish, NothingToDelete, Deleting, history
    <2>2. Top \in Ending /\ Top \in Nat
        BY <1>1, <2>1, TopBuffer DEF Ending
    <2>3. ASSUME ~swallowed PROVE blocks' = {}
        <3>1. ASSUME NEW b \in blocks, b.owner <= Top - 1
              PROVE  FALSE
            <4>1. PICK k \in Transactions : k <= b.owner
                BY <2>3, <3>1 DEF MInv, OwnerInv
            <4>2. Top <= k /\ k \in Int /\ b.owner \in Nat
                BY <1>1, <2>2, <2>3, <3>1, SetFacts DEF LInv, EndInv, IInv, TypeOK
            <4>3. QED
                BY <2>2, <3>1, <4>1, <4>2
        <3>2. QED
            BY <2>1, <3>1 DEF Kept
    <2>4. QED
        BY <1>1, <2>1, <2>3, NoBlocks DEF MInv
<1>8. ASSUME NEW o \in Object, Dispose(o)
      PROVE  MInv'
    BY <1>2, <1>8 DEF Dispose, history
<1>9. ASSUME frames # <<>>, frames[Top].phase \in {"end", "abort"},
             UNCHANGED <<buffers, level, memory, blocks, swallowed>>,
             NEW d \in SUBSET Object,
             frames' = [frames EXCEPT ![Top] = [@ EXCEPT !.phase = frames[Top].phase, !.doomed = d]]
      PROVE  MInv'
    <2>1. /\ Transactions' = Transactions /\ Broken' = Broken /\ Passing' = Passing
          /\ Top' = Top
        BY <1>1, <1>9, DeleteShape
    <2>2. ~swallowed => OwnerInv'
        BY <1>9, <2>1, SameOwners
    <2>3. QED
        BY <1>3, <1>9, <2>1, <2>2
<1>10. ASSUME NEW o \in Object, Delete(o)
       PROVE  MInv'
    <2>1. /\ frames # <<>> /\ frames[Top].phase \in {"end", "abort"} /\ frames[Top] \in Frame
          /\ UNCHANGED <<buffers, level, memory, blocks, swallowed>>
        BY <1>1, <1>10, TopBuffer DEF Delete, Deleting, history
    <2>2. frames' = [frames EXCEPT ![Top] = [@ EXCEPT !.phase = frames[Top].phase,
                                                      !.doomed = frames[Top].doomed \ {o}]]
        BY <1>10, <2>1 DEF Delete, Frame
    <2>3. frames[Top].doomed \ {o} \in SUBSET Object
        BY <2>1 DEF Frame
    <2>4. QED
        BY <1>9, <2>1, <2>2, <2>3
<1>11. CASE Collect
    <2>1. /\ frames # <<>> /\ frames[Top].phase \in {"end", "abort"} /\ frames[Top] \in Frame
          /\ UNCHANGED <<buffers, level, memory, blocks, swallowed>>
        BY <1>1, <1>11, TopBuffer DEF Collect, Deleting, history
    <2>2. frames' = [frames EXCEPT ![Top] = [@ EXCEPT !.phase = frames[Top].phase,
                                                      !.doomed = Condemned]]
        BY <1>11, <2>1 DEF Collect, Frame
    <2>3. Condemned \in SUBSET Object
        BY CondemnedObjects DEF IInv, TypeOK
    <2>4. QED
        BY <1>9, <2>1, <2>2, <2>3
<1>12. CASE FinishAbort
    <2>1. /\ Transactions' = Transactions /\ Valid' = {} /\ Top' = Top
        BY <1>1, <1>12, PassShape
    <2>2. level' = level - 1 /\ UNCHANGED <<memory, blocks, swallowed>>
        BY <1>12 DEF FinishAbort, history
    <2>3. ASSUME ~swallowed PROVE OwnerInv' /\ FitInv' /\ ApartInv'
        <3>1. OwnerInv' /\ ApartInv'
            BY <2>1, <2>2, <2>3, SameOwners DEF MInv, ApartInv
        <3>2. \A n : Cardinality(Inside(n)') = 0
            BY <2>1, FS_EmptySet DEF Inside
        <3>3. FitInv'
            BY <1>1, <2>2, <2>3, <3>2 DEF MInv, FitInv, Fits, memory
        <3>4. QED
            BY <3>1, <3>3
    <2>4. QED
        BY <1>1, <2>2, <2>3 DEF MInv
<1>13. CASE UNCHANGED vars
    BY <1>2, <1>13 DEF vars, memory
<1>14. CASE Throw \/ Rethrow
    BY <1>14, JumpMemory DEF Throw, Rethrow
<1>15. QED
    BY <1>4, <1>5, <1>6, <1>7, <1>8, <1>10, <1>11, <1>12, <1>13, <1>14,
       StartMemory, EndNestedMemory, AllocateMemory
    DEF Next, Undefined

LEMMA MInvAlways == Spec => [](IInv /\ LInv /\ MInv)
<1>1. Init => MInv
    BY DEF Init, MInv, OwnerInv, FitInv, ApartInv
<1>2. IInv /\ LInv /\ MInv /\ [Next]_vars => MInv'
    BY MInvStep
<1>3. QED
    BY <1>1, <1>2, LInvAlways, PTL DEF Spec

\* Memory is never handed out twice, nor cut back under an object that exists,
\* for chunks of any size and transactions nested to any depth, whatever levels
\* errors have lost, unless a genTry has swallowed the error of a transaction.
THEOREM MemoryKept == Spec => []BlocksKept
<1>1. IInv /\ MInv => BlocksKept
    BY DEF MInv, FitInv, ApartInv, Fits, BlocksKept
<1>2. QED
    BY <1>1, MInvAlways, PTL
=============================================================================
