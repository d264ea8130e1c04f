---------------------------- MODULE CRDCache_proofs ----------------------------
(***************************************************************************)
(* Proofs about the conversion of CRDs, for every number of files and of   *)
(* schemas, edits at any moment and deaths between any two steps.          *)
(***************************************************************************)
EXTENDS CRDCache, WellFoundedInduction, TLAPS

Converting == call.pc \in {"open", "write", "fill"}
Writing    == call.pc \in {"write", "fill"}
Working    == call.pc \in {"walk", "open", "write", "fill", "sweep"}

(* What the stages of a call rely on, beyond the types.                    *)
Shaped ==
  /\ Converting => call.of \in Files
  /\ Writing => call.read \in File
  /\ call.pc = "fill" => call.name \in Names

TypeInv == TypeOK /\ Shaped

-----------------------------------------------------------------------------
(* A claim matches a file when it has the file's present stamp: the file   *)
(* did not change since it was visited.                                    *)
Matching(claims, f) ==
  claims[f] # None /\ file[f] # None /\ claims[f].stamp = file[f].stamp

(* A claim that matches is true: the file decodes, and each schema it      *)
(* defines is there, made from it as it is.                                *)
Honest(claims) ==
  /\ \A f \in Files : claims[f] # None => claims[f].stamp <= edits
  /\ \A f \in Files : Matching(claims, f) =>
       /\ file[f].ok
       /\ claims[f].outputs = file[f].names
       /\ \A n \in file[f].names : schema[n] = <<f, file[f].stamp>>

(* No two files define the same schema; no stamp is of the future.         *)
FilesInv ==
  /\ \A f \in Files : file[f] # None => file[f].stamp <= edits
  /\ \A f, g \in Files : f # g /\ file[f] # None /\ file[g] # None =>
       file[f].names \cap file[g].names = {}

(* What the manifest on disk says that is still true is known to the call, *)
(* and will be visited or was.                                             *)
Knows ==
  Working => \A f \in Files : Matching(meta, f) =>
               call.meta[f] = meta[f] /\ f \in call.todo \cup call.seen

(* A file is converted only when no claim matches it, and what is written  *)
(* is no schema of a claim that matches.                                   *)
ConvertInv ==
  /\ Converting => /\ call.stamp <= edits
                   /\ ~Matching(meta, call.of) /\ ~Matching(call.meta, call.of)
  /\ Writing =>
       /\ \A f \in Files : Matching(meta, f) \/ Matching(call.meta, f) =>
            call.read.names \cap file[f].names = {}
       /\ file[call.of] # None /\ file[call.of].stamp = call.stamp => call.read = file[call.of]
       /\ call.names \subseteq call.read.names
       /\ \A n \in call.read.names \ call.names : schema[n] = <<call.of, call.read.stamp>>
  /\ call.pc = "fill" => call.name \in call.names

(* The files the walk is done with.                                        *)
Done == call.seen \ {call.of}

(* What they claim is whole, but for the schema being written.             *)
Whole ==
  Working \/ At("ready") =>
    \A f \in Done : call.meta[f] # None =>
      \A n \in call.meta[f].outputs :
        schema[n] # Torn \/ (At("fill") /\ n = call.name)

(* What is there at the end is claimed, or will be swept.                  *)
SweepInv ==
  /\ call.pc \in {"walk", "sweep", "ready"} => call.of = None
  /\ At("sweep") \/ At("ready") =>
       /\ call.todo = {}
       /\ \A f \in Files : call.meta[f] # None => f \in call.seen
       /\ \A n \in Names : schema[n] # None => n \in call.names \cup Live(call.meta)
  /\ At("sweep") => call.names \cap Live(call.meta) = {}
  /\ At("ready") => call.names = {} /\ meta = call.meta

(* Without edits the walk meets every file, and leaves a claim that        *)
(* matches.                                                                *)
Steady ==
  (Working \/ At("ready")) /\ ~call.edited =>
    /\ call.todo \cup call.seen = Present
    /\ \A f \in Done : Matching(call.meta, f)
    /\ Converting => call.stamp = file[call.of].stamp

CacheInv ==
  /\ FilesInv
  /\ Honest(meta)
  /\ Working => Honest(call.meta)
  /\ Knows /\ ConvertInv /\ Whole /\ SweepInv /\ Steady

-----------------------------------------------------------------------------
(* The constants, and the order of the walk.                               *)
LEMMA Bounds ==
  /\ MaxEdits \in Nat
  /\ \A s \in Stamps : s \in Nat
  /\ 0 \in Stamps
  /\ None \notin File /\ None \notin Schema /\ None \notin Claim
  /\ None \notin Files /\ None \notin Names /\ None # Torn /\ Torn \notin Schema
BY ConstantsAssumption DEF ConstantsAssumption, Stamps

LEMMA FirstIsThere ==
  ASSUME NEW S \in SUBSET Files, S # {}
  PROVE  First(S) \in S
<1> DEFINE T == {i \in DOMAIN Order : Order[i] \in S}
           R == {ss \in Nat \X Nat : ss[1] < ss[2]}
<1>1. DOMAIN Order \subseteq Nat /\ IsInjective(Order)
  BY ConstantsAssumption DEF ConstantsAssumption
<1>2. T \subseteq Nat /\ T # {}
  BY <1>1 DEF Files, ToSet
<1>3. PICK i \in T : \A j \in T : <<j, i>> \notin R
  <2>1. IsWellFoundedOn(R, Nat)
    BY NatLessThanWellFounded DEF OpToRel
  <2> HIDE DEF R, T
  <2>2. QED
    BY <1>2, <2>1, WFMin, Zenon
<1>4. ASSUME NEW j \in T PROVE i <= j
  <2> HIDE DEF T
  <2>1. i \in Nat /\ j \in Nat
    BY <1>2
  <2>2. ~(j < i)
    BY <1>3, <2>1
  <2>3. QED
    BY <2>1, <2>2
<1>5. Order[i] \in S /\ \A k, j \in DOMAIN Order : Order[k] = Order[i] /\ Order[j] \in S => k <= j
  BY <1>1, <1>4 DEF IsInjective
<1>6. \E f \in S : \A k, j \in DOMAIN Order : Order[k] = f /\ Order[j] \in S => k <= j
  BY <1>5
<1>7. QED
  BY <1>6 DEF First

LEMMA CallTyped ==
  ASSUME TypeOK
  PROVE  /\ call \in Call /\ call.pc \in Stages
         /\ call.todo \in SUBSET Files /\ call.seen \in SUBSET Files
         /\ call.meta \in [Files -> Claim \cup {None}]
         /\ call.of \in Files \cup {None} /\ call.stamp \in Stamps
         /\ call.read \in File \cup {None} /\ call.names \in SUBSET Names
         /\ call.name \in Names \cup {None} /\ call.edited \in BOOLEAN
         /\ \A f \in File : f.names \in SUBSET Names /\ f.ok \in BOOLEAN /\ f.stamp \in Stamps
BY DEF TypeOK, Call, File

LEMMA IdleTyped == Idle \in Call
BY Bounds DEF Idle, Call, NoClaims, Stages

-----------------------------------------------------------------------------
(* The effect of each action on the record of the call.                    *)
KeepsWalk   == call'.todo = call.todo /\ call'.seen = call.seen /\ call'.edited = call.edited
KeepsFile   == call'.of = call.of /\ call'.stamp = call.stamp /\ call'.read = call.read
KeepsClaims == call'.meta = call.meta

LEMMA FailEffect ==
  ASSUME TypeOK, Fail
  PROVE  call' \in Call /\ call'.pc = "failed"
BY CallTyped DEF Fail, Call, Stages

LEMMA StartEffect ==
  ASSUME TypeOK, Start
  PROVE  /\ call' \in Call
         /\ call'.pc = "walk" /\ call'.todo = Present /\ call'.seen = {} /\ call'.meta = meta
         /\ call'.of = None /\ call'.names = {} /\ call'.edited = FALSE
<1>1. Present \in SUBSET Files /\ meta \in [Files -> Claim \cup {None}]
  BY DEF TypeOK, Present
<1>2. call' = [Idle EXCEPT !.pc = "walk", !.todo = Present, !.meta = meta]
  BY DEF Start
<1>3. call' \in Call
  BY <1>1, <1>2, IdleTyped DEF Call, Stages
<1>4. QED
  BY <1>2, <1>3 DEF Idle

LEMMA VisitEffect ==
  ASSUME TypeOK, Visit
  PROVE  /\ call' \in Call
         /\ \/ call'.pc = "failed"
            \/ \E f \in call.todo :
                 /\ file[f] # None
                 /\ call'.todo = call.todo \ {f} /\ call'.seen = call.seen \cup {f}
                 /\ call'.edited = call.edited /\ KeepsClaims /\ call'.names = call.names
                 /\ \/ Unchanged(f) /\ call'.pc = "walk" /\ KeepsFile
                    \/ /\ ~Unchanged(f) /\ call'.pc = "open"
                       /\ call'.of = f /\ call'.stamp = file[f].stamp
<1> DEFINE f == First(call.todo)
           b == [call EXCEPT !.todo = @ \ {f}, !.seen = @ \cup {f}]
           o == [b EXCEPT !.pc = "open", !.of = f, !.stamp = file[f].stamp]
<1>1. call \in Call /\ call.todo \in SUBSET Files /\ call.seen \in SUBSET Files
  BY CallTyped
<1>2. f \in call.todo /\ f \in Files
  BY <1>1, FirstIsThere DEF Visit
<1>3. \/ Fail
      \/ f \in Present /\ Unchanged(f) /\ call' = b
      \/ f \in Present /\ ~Unchanged(f) /\ call' = o
  BY DEF Visit
<1>4. f \in Present => file[f] # None /\ file[f].stamp \in Stamps
  BY <1>2, CallTyped DEF Present, TypeOK
<1> HIDE DEF f
<1>5. b \in Call /\ b.todo = call.todo \ {f} /\ b.seen = call.seen \cup {f} /\ b.meta = call.meta
      /\ b.of = call.of /\ b.stamp = call.stamp /\ b.read = call.read
      /\ b.names = call.names /\ b.edited = call.edited /\ b.pc = call.pc
  BY <1>1, <1>2 DEF Call
<1> HIDE DEF b
<1>6. f \in Present => /\ o \in Call /\ o.pc = "open" /\ o.of = f /\ o.stamp = file[f].stamp
                       /\ o.todo = b.todo /\ o.seen = b.seen /\ o.meta = b.meta
                       /\ o.names = b.names /\ o.edited = b.edited
  BY <1>2, <1>4, <1>5 DEF Call, Stages
<1> HIDE DEF o
<1>7. CASE Fail
  BY <1>7, FailEffect
<1>8. CASE f \in Present /\ Unchanged(f) /\ call' = b
  <2>1. call.pc = "walk"
    BY DEF Visit, At
  <2>2. QED
    BY <1>2, <1>4, <1>5, <1>8, <2>1 DEF KeepsClaims, KeepsFile
<1>9. CASE f \in Present /\ ~Unchanged(f) /\ call' = o
  BY <1>2, <1>4, <1>5, <1>6, <1>9 DEF KeepsClaims
<1>10. QED
  BY <1>3, <1>7, <1>8, <1>9

LEMMA OpenEffect ==
  ASSUME TypeInv, Open
  PROVE  /\ call' \in Call
         /\ \/ call'.pc = "failed"
            \/ /\ file[call.of] # None /\ file[call.of] \in File /\ call'.pc = "write"
               /\ call'.read = file[call.of] /\ call'.names = file[call.of].names
               /\ call'.of = call.of /\ call'.stamp = call.stamp /\ KeepsWalk /\ KeepsClaims
<1> DEFINE z == [call EXCEPT !.pc = "write", !.read = file[call.of], !.names = file[call.of].names]
<1>1. TypeOK /\ call \in Call /\ call.of \in Files
  BY CallTyped DEF TypeInv, Shaped, Converting, Open, At
<1>2. CASE call.of \in Present
  <2>1. file[call.of] # None /\ file[call.of] \in File /\ file[call.of].names \in SUBSET Names
    BY <1>1, <1>2, CallTyped DEF Present, TypeOK
  <2>2. call' = z
    BY <1>2 DEF Open
  <2>3. z \in Call
    BY <1>1, <2>1 DEF Call, Stages
  <2>4. QED
    BY <1>1, <2>1, <2>2, <2>3 DEF Call, KeepsWalk, KeepsClaims
<1>3. CASE call.of \notin Present
  BY <1>1, <1>3, FailEffect DEF Open
<1>4. QED
  BY <1>2, <1>3

LEMMA TruncateEffect ==
  ASSUME TypeOK, NEW n \in Names, Truncate(n)
  PROVE  /\ call' \in Call
         /\ call'.pc = "fill" /\ call'.name = n /\ call'.names = call.names
         /\ KeepsWalk /\ KeepsFile /\ KeepsClaims
<1>1. call \in Call /\ call' = [call EXCEPT !.pc = "fill", !.name = n]
  BY CallTyped DEF Truncate
<1>2. QED
  BY <1>1 DEF Call, Stages, KeepsWalk, KeepsFile, KeepsClaims

LEMMA FillEffect ==
  ASSUME TypeOK, Fill
  PROVE  /\ call' \in Call
         /\ call'.pc = "write" /\ call'.names = call.names \ {call.name}
         /\ KeepsWalk /\ KeepsFile /\ KeepsClaims
<1>1. /\ call \in Call /\ call.names \in SUBSET Names
      /\ call' = [call EXCEPT !.pc = "write", !.names = call.names \ {call.name}, !.name = None]
  BY CallTyped DEF Fill
<1>2. QED
  BY <1>1 DEF Call, Stages, KeepsWalk, KeepsFile, KeepsClaims

LEMMA ConvertEffect ==
  ASSUME TypeInv, Convert
  PROVE  /\ call' \in Call /\ Claimed \in Claim
         /\ call'.pc = "walk" /\ call'.of = None /\ call'.names = call.names
         /\ call'.meta = [call.meta EXCEPT ![call.of] = Claimed]
         /\ KeepsWalk
<1> DEFINE c == [call.meta EXCEPT ![call.of] = Claimed]
           z == [call EXCEPT !.pc = "walk", !.of = None, !.read = None, !.meta = c]
<1>1. TypeOK /\ call \in Call /\ call.of \in Files /\ call.read \in File
  BY CallTyped DEF TypeInv, Shaped, Converting, Writing, Convert, At
<1>2. Claimed \in Claim
  BY <1>1, CallTyped DEF Claimed, Claim
<1>3. c \in [Files -> Claim \cup {None}]
  BY <1>1, <1>2, CallTyped
<1>4. call' = z
  <2>1. call' = [call EXCEPT !.pc = "walk", !.of = None, !.read = None, !.meta[call.of] = Claimed]
    BY DEF Convert
  <2>2. QED
    BY <1>1, <2>1 DEF Call
<1> HIDE DEF c
<1>5. z \in Call
  BY <1>1, <1>3 DEF Call, Stages
<1>6. QED
  BY <1>1, <1>2, <1>4, <1>5 DEF Call, KeepsWalk, c

LEMMA ForgetEffect ==
  ASSUME TypeOK, Forget
  PROVE  /\ call' \in Call
         /\ call'.pc = "sweep"
         /\ call'.meta = [f \in Files |-> IF f \in call.seen THEN call.meta[f] ELSE None]
         /\ call'.names = {n \in Names : schema[n] # None} \ Live(call'.meta)
         /\ KeepsWalk /\ KeepsFile
<1> DEFINE c == [f \in Files |-> IF f \in call.seen THEN call.meta[f] ELSE None]
           s == {n \in Names : schema[n] # None} \ Live(c)
           z == [call EXCEPT !.pc = "sweep", !.meta = c, !.names = s]
<1>1. call \in Call /\ c \in [Files -> Claim \cup {None}] /\ s \in SUBSET Names
  BY CallTyped
<1>2. call' = z
  BY DEF Forget, Seen
<1> HIDE DEF c, s
<1>3. z \in Call /\ z.pc = "sweep" /\ z.meta = c /\ z.names = s
      /\ z.todo = call.todo /\ z.seen = call.seen /\ z.edited = call.edited
      /\ z.of = call.of /\ z.stamp = call.stamp /\ z.read = call.read
  BY <1>1 DEF Call, Stages
<1>4. QED
  BY <1>2, <1>3 DEF c, s, KeepsWalk, KeepsFile

LEMMA SweepEffect ==
  ASSUME TypeOK, NEW n \in Names, Sweep(n)
  PROVE  /\ call' \in Call
         /\ call'.pc = "sweep" /\ call'.names = call.names \ {n}
         /\ KeepsWalk /\ KeepsFile /\ KeepsClaims
<1>1. /\ call \in Call /\ call.names \in SUBSET Names /\ call.pc = "sweep"
      /\ call' = [call EXCEPT !.names = call.names \ {n}]
  BY CallTyped DEF Sweep, At
<1>2. QED
  BY <1>1 DEF Call, Stages, KeepsWalk, KeepsFile, KeepsClaims

LEMMA SaveEffect ==
  ASSUME TypeOK, Save
  PROVE  /\ call' \in Call /\ meta' \in {meta, call.meta}
         /\ \/ call'.pc = "failed" /\ meta' = meta
            \/ /\ call'.pc = "ready" /\ meta' = call.meta /\ call'.names = {}
               /\ KeepsWalk /\ KeepsFile /\ KeepsClaims
<1>1. CASE meta' = call.meta /\ call' = [call EXCEPT !.pc = "ready"]
  <2>1. call \in Call /\ call.names = {}
    BY CallTyped DEF Save
  <2>2. QED
    BY <1>1, <2>1 DEF Call, Stages, KeepsWalk, KeepsFile, KeepsClaims
<1>2. CASE meta' = meta /\ Fail
  BY <1>2, FailEffect
<1>3. QED
  BY <1>1, <1>2 DEF Save

LEMMA ChangeEffect ==
  ASSUME TypeOK, NEW f \in Files, NEW c \in File \cup {None}, Change(f, c)
  PROVE  /\ call' \in Call
         /\ call'.pc = call.pc /\ call'.todo = call.todo /\ call'.seen = call.seen
         /\ call'.names = call.names /\ call'.name = call.name
         /\ call'.edited = (call.pc # "idle")
         /\ KeepsFile /\ KeepsClaims
<1>1. call \in Call /\ call' = [call EXCEPT !.edited = (call.pc # "idle")]
  BY CallTyped DEF Change
<1>2. QED
  BY <1>1 DEF Call, KeepsFile, KeepsClaims

-----------------------------------------------------------------------------
(* The types.                                                              *)
Separate(f, c) ==
  c # None => c.stamp = edits + 1 /\ \A g \in Present \ {f} : file[g].names \cap c.names = {}

(* What the user does is a change of one file, to a content of its own.    *)
LEMMA UserChange ==
  ASSUME TypeOK, NEW f \in Files,
         Delete(f) \/ \E names \in SUBSET Names, ok \in BOOLEAN : Write(f, names, ok)
  PROVE  \E c \in File \cup {None} :
           Change(f, c) /\ edits + 1 \in Stamps /\ (~Overlaps => Separate(f, c))
<1>1. CASE Delete(f)
  <2>1. edits + 1 \in Stamps
    BY <1>1, Bounds DEF TypeOK, Delete, Change, Stamps
  <2>2. QED
    BY <1>1, <2>1 DEF Delete, Separate
<1>2. ASSUME NEW names \in SUBSET Names, NEW ok \in BOOLEAN, Write(f, names, ok)
      PROVE  \E c \in File \cup {None} :
               Change(f, c) /\ edits + 1 \in Stamps /\ (~Overlaps => Separate(f, c))
  <2> DEFINE c == [names |-> names, ok |-> ok, stamp |-> edits + 1]
  <2>1. edits + 1 \in Stamps
    BY <1>2, Bounds DEF TypeOK, Write, Change, Stamps
  <2>2. c \in File
    BY <2>1 DEF File
  <2>3. Change(f, c) /\ (~Overlaps => Separate(f, c))
    BY <1>2 DEF Write, Separate
  <2>4. QED
    BY <2>1, <2>2, <2>3
<1>3. QED
  BY <1>1, <1>2

LEMMA TypeInit == Init => TypeInv
BY IdleTyped, Bounds
   DEF Init, TypeInv, TypeOK, Shaped, Converting, Writing, Idle, NoClaims

LEMMA TypeNext == TypeInv /\ [Next]_vars => TypeInv'
<1> SUFFICES ASSUME TypeInv, [Next]_vars PROVE TypeInv'
  OBVIOUS
<1>1. TypeOK /\ Shaped
  BY DEF TypeInv
<1>2. CASE UNCHANGED vars
  BY <1>1, <1>2 DEF vars, user, disk, TypeInv, TypeOK, Shaped, Converting, Writing
<1>3. ASSUME NEW f \in Files,
             Delete(f) \/ \E names \in SUBSET Names, ok \in BOOLEAN : Write(f, names, ok)
      PROVE  TypeInv'
  <2>1. PICK c \in File \cup {None} : Change(f, c) /\ edits + 1 \in Stamps
    BY <1>1, <1>3, UserChange
  <2>2. /\ file' = [file EXCEPT ![f] = c] /\ edits' = edits + 1
        /\ schema' = schema /\ meta' = meta
    BY <2>1 DEF Change, disk
  <2>3. /\ call' \in Call /\ call'.pc = call.pc /\ call'.of = call.of
        /\ call'.read = call.read /\ call'.name = call.name
    BY <1>1, <2>1, ChangeEffect DEF KeepsFile
  <2>4. TypeOK'
    BY <1>1, <2>1, <2>2, <2>3 DEF TypeOK
  <2>5. Shaped'
    BY <1>1, <2>3 DEF Shaped, Converting, Writing
  <2>6. QED
    BY <2>4, <2>5 DEF TypeInv
<1>4. CASE Step
  <2> USE <1>1
  <2>1. ASSUME call' \in Call, schema' \in [Names -> Schema \cup {None, Torn}],
               meta' \in [Files -> Claim \cup {None}], UNCHANGED user, Shaped'
        PROVE  TypeInv'
    BY <2>1 DEF TypeInv, TypeOK, user
  <2>2. ASSUME call'.pc \notin {"open", "write", "fill"} PROVE Shaped'
    BY <2>2 DEF Shaped, Converting, Writing
  <2>3. ASSUME UNCHANGED <<user, disk>>, call' \in Call, Shaped' PROVE TypeInv'
    BY <2>1, <2>3 DEF TypeOK, disk
  <2>4. CASE Start
    BY <2>2, <2>3, <2>4, StartEffect DEF Start
  <2>5. CASE Visit
    <3>1. Shaped'
      BY <2>2, <2>5, VisitEffect, CallTyped DEF Shaped, Converting, Writing
    <3>2. QED
      BY <2>3, <2>5, <3>1, VisitEffect DEF Visit
  <2>6. CASE Open
    <3>1. call.of \in Files
      BY <2>6 DEF Open, At, Shaped, Converting
    <3>2. Shaped' /\ call' \in Call
      BY <2>2, <2>6, <3>1, OpenEffect DEF TypeInv, Shaped, Converting, Writing
    <3>3. QED
      BY <2>3, <2>6, <3>2 DEF Open
  <2>7. CASE Fill
    <3>1. call.of \in Files /\ call.read \in File /\ call.name \in Names
      BY <2>7 DEF Fill, At, Shaped, Converting, Writing
    <3>2. Shaped' /\ call' \in Call
      BY <2>7, <3>1, FillEffect DEF Shaped, Converting, Writing, KeepsFile
    <3>3. <<call.of, call.read.stamp>> \in Schema
      BY <3>1, CallTyped DEF Schema
    <3>4. schema' \in [Names -> Schema \cup {None, Torn}] /\ meta' = meta /\ UNCHANGED user
      BY <2>7, <3>3 DEF Fill, TypeOK
    <3>5. QED
      BY <2>1, <3>2, <3>4 DEF TypeOK
  <2>8. CASE Convert
    BY <2>2, <2>3, <2>8, ConvertEffect DEF Convert, TypeInv
  <2>9. CASE Malformed
    BY <2>2, <2>3, <2>9, FailEffect DEF Malformed
  <2>10. CASE Forget
    BY <2>2, <2>3, <2>10, ForgetEffect DEF Forget
  <2>11. CASE Save
    <3>1. meta' \in [Files -> Claim \cup {None}]
      BY <2>11, SaveEffect, CallTyped DEF TypeOK
    <3>2. UNCHANGED <<user, schema>>
      BY <2>11 DEF Save
    <3>3. QED
      BY <2>1, <2>2, <2>11, <3>1, <3>2, SaveEffect DEF TypeOK
  <2>12. ASSUME NEW n \in Names, Truncate(n) PROVE TypeInv'
    <3>1. call.of \in Files /\ call.read \in File
      BY <2>12 DEF Truncate, At, Shaped, Converting, Writing
    <3>2. Shaped' /\ call' \in Call
      BY <2>12, <3>1, TruncateEffect DEF Shaped, Converting, Writing, KeepsFile
    <3>3. schema' \in [Names -> Schema \cup {None, Torn}] /\ meta' = meta /\ UNCHANGED user
      BY <2>12 DEF Truncate, TypeOK
    <3>4. QED
      BY <2>1, <3>2, <3>3 DEF TypeOK
  <2>13. ASSUME NEW n \in Names, Sweep(n) PROVE TypeInv'
    <3>1. schema' \in [Names -> Schema \cup {None, Torn}] /\ meta' = meta /\ UNCHANGED user
      BY <2>13 DEF Sweep, TypeOK
    <3>2. QED
      BY <2>1, <2>2, <2>13, <3>1, SweepEffect DEF TypeOK
  <2>14. CASE Exit
    BY <2>2, <2>3, <2>14, IdleTyped DEF Exit, Idle
  <2>15. QED
    BY <1>4, <2>4, <2>5, <2>6, <2>7, <2>8, <2>9, <2>10, <2>11, <2>12, <2>13, <2>14 DEF Step
<1>5. QED
  BY <1>2, <1>3, <1>4 DEF Next

(* The types hold in every reachable state: every claim and schema is of a *)
(* file there was, however often a call of CRDYAMLToSchemaDir is killed.   *)
THEOREM TypeCorrect == Spec => []TypeOK
<1>1. TypeInv => TypeOK
  BY DEF TypeInv
<1>2. QED
  BY <1>1, TypeInit, TypeNext, PTL DEF Spec

-----------------------------------------------------------------------------
(* What is ready is current.  Each action keeps the invariant.             *)
LEMMA FailedKeeps ==
  ASSUME CacheInv, UNCHANGED <<user, disk>>, call'.pc \in {"failed", "idle"}
  PROVE  CacheInv'
<1>1. UNCHANGED <<file, edits, schema, meta>>
  BY DEF user, disk
<1>2. FilesInv' /\ Honest(meta)'
  BY <1>1 DEF CacheInv, FilesInv, Honest, Matching
<1>3. ~Working' /\ ~Converting' /\ ~Writing' /\ ~At("ready")' /\ ~At("sweep")' /\ call'.pc # "walk"
  BY DEF Working, Converting, Writing, At
<1>4. Knows' /\ ConvertInv' /\ Whole' /\ SweepInv' /\ Steady'
  BY <1>3 DEF Knows, ConvertInv, Whole, SweepInv, Steady
<1>5. QED
  BY <1>2, <1>3, <1>4 DEF CacheInv

(* A change only takes matching claims away.                               *)
LEMMA ChangeMismatches ==
  ASSUME TypeOK, NEW T \in [Files -> Claim \cup {None}],
         \A g \in Files : T[g] # None => T[g].stamp <= edits,
         NEW f \in Files, NEW c \in File \cup {None}, Change(f, c), c # None => c.stamp = edits + 1,
         NEW g \in Files, T[g] # None, file'[g] # None, T[g].stamp = file'[g].stamp
  PROVE  g # f /\ file'[g] = file[g] /\ Matching(T, g)
<1>1. edits \in Nat /\ T[g] \in Claim /\ T[g].stamp \in Nat /\ T[g].stamp <= edits
  BY Bounds DEF TypeOK, Claim
<1>2. file'[f] = c /\ \A h \in Files : h # f => file'[h] = file[h]
  BY DEF Change, TypeOK
<1>3. g # f
  BY <1>1, <1>2
<1>4. QED
  BY <1>2, <1>3 DEF Matching

LEMMA UserKeeps ==
  ASSUME TypeInv, CacheInv, NEW f \in Files, NEW c \in File \cup {None},
         Change(f, c), Separate(f, c)
  PROVE  CacheInv'
<1>1. /\ TypeOK /\ edits \in Nat /\ edits' = edits + 1 /\ UNCHANGED <<schema, meta>>
      /\ file'[f] = c /\ \A g \in Files : g # f => file'[g] = file[g]
      /\ c # None => c.stamp = edits + 1
  BY Bounds DEF TypeInv, TypeOK, Change, disk, Separate
<1>2. /\ call'.pc = call.pc /\ call'.todo = call.todo /\ call'.seen = call.seen
      /\ call'.names = call.names /\ call'.name = call.name /\ call'.meta = call.meta
      /\ call'.of = call.of /\ call'.stamp = call.stamp /\ call'.read = call.read
      /\ call'.edited = (call.pc # "idle")
  BY <1>1, ChangeEffect DEF KeepsFile, KeepsClaims
<1>3. /\ meta \in [Files -> Claim \cup {None}] /\ call.meta \in [Files -> Claim \cup {None}]
      /\ \A h \in Claim : h.stamp \in Nat
      /\ \A h \in File : h.stamp \in Nat
  BY <1>1, CallTyped, Bounds DEF TypeOK, Claim
<1>4. FilesInv'
  <2>1. \A g \in Files : file'[g] # None => file'[g].stamp <= edits + 1
    BY <1>1, <1>3 DEF CacheInv, FilesInv, TypeOK
  <2>2. \A g \in Files : g # f /\ file'[g] # None /\ c # None => file'[g].names \cap c.names = {}
    BY <1>1 DEF Separate, Present
  <2>3. QED
    BY <1>1, <2>1, <2>2 DEF CacheInv, FilesInv
<1>5. ASSUME NEW g \in Files, Matching(meta, g)'
      PROVE  g # f /\ file'[g] = file[g] /\ Matching(meta, g)
  <2>1. meta[g] # None /\ file'[g] # None /\ meta[g].stamp = file'[g].stamp
    BY <1>1, <1>5 DEF Matching
  <2>2. \A h \in Files : meta[h] # None => meta[h].stamp <= edits
    BY DEF CacheInv, Honest
  <2>3. QED
    BY <1>1, <1>3, <2>1, <2>2, ChangeMismatches
<1>6. ASSUME Working, NEW g \in Files, Matching(call.meta, g)'
      PROVE  g # f /\ file'[g] = file[g] /\ Matching(call.meta, g)
  <2>1. call.meta[g] # None /\ file'[g] # None /\ call.meta[g].stamp = file'[g].stamp
    BY <1>2, <1>6 DEF Matching
  <2>2. \A h \in Files : call.meta[h] # None => call.meta[h].stamp <= edits
    BY <1>6 DEF CacheInv, Honest
  <2>3. QED
    BY <1>1, <1>3, <2>1, <2>2, ChangeMismatches
<1>7. Honest(meta)'
  <2>1. \A g \in Files : meta'[g] # None => meta'[g].stamp <= edits'
    BY <1>1, <1>3 DEF CacheInv, Honest
  <2>2. QED
    BY <1>1, <1>5, <2>1 DEF CacheInv, Honest
<1>8. Working' => Honest(call.meta)'
  <2>1. ASSUME Working PROVE \A g \in Files : call'.meta[g] # None => call'.meta[g].stamp <= edits'
    BY <1>1, <1>2, <1>3, <2>1 DEF CacheInv, Honest
  <2>2. ASSUME Working, NEW g \in Files, Matching(call.meta, g)'
        PROVE  /\ file'[g].ok /\ call'.meta[g].outputs = file'[g].names
               /\ \A n \in file'[g].names : schema'[n] = <<g, file'[g].stamp>>
    BY <1>1, <1>2, <1>6, <2>2 DEF CacheInv, Honest
  <2>3. QED
    BY <1>2, <2>1, <2>2 DEF Honest, Working
<1>9. Knows'
  BY <1>1, <1>2, <1>5 DEF CacheInv, Knows, Working
<1>10. ConvertInv'
  <2>1. ASSUME Converting
        PROVE  /\ call'.stamp <= edits'
               /\ ~Matching(meta, call.of)' /\ ~Matching(call.meta, call.of)'
    <3>1. Working /\ call.of \in Files /\ call.stamp \in Nat /\ call.stamp <= edits
      BY <1>1, <2>1, CallTyped, Bounds DEF Working, Converting, TypeInv, Shaped, CacheInv,
           ConvertInv
    <3>2. QED
      BY <1>1, <1>2, <1>5, <1>6, <2>1, <3>1 DEF CacheInv, ConvertInv, Matching
  <2>2. ASSUME Writing
        PROVE  /\ \A g \in Files : Matching(meta, g)' \/ Matching(call.meta, g)' =>
                    call'.read.names \cap file'[g].names = {}
               /\ file'[call.of] # None /\ file'[call.of].stamp = call.stamp =>
                    call.read = file'[call.of]
    <3>1. Working /\ Converting /\ call.of \in Files /\ call.stamp \in Nat /\ call.stamp <= edits
      BY <1>1, <2>2, CallTyped, Bounds
         DEF Working, Writing, Converting, TypeInv, Shaped, CacheInv, ConvertInv
    <3>2. call.of = f => file'[call.of] = None \/ file'[call.of].stamp # call.stamp
      BY <1>1, <3>1
    <3>3. QED
      BY <1>1, <1>2, <1>5, <1>6, <2>2, <3>1, <3>2 DEF CacheInv, ConvertInv
  <2>3. QED
    BY <1>1, <1>2, <2>1, <2>2 DEF CacheInv, ConvertInv, Converting, Writing
<1>11. Whole'
  BY <1>1, <1>2 DEF CacheInv, Whole, Done, Working, At
<1>12. SweepInv'
  BY <1>1, <1>2 DEF CacheInv, SweepInv, At, Live
<1>13. Steady'
  BY <1>2 DEF Steady, Working, At
<1>14. QED
  BY <1>4, <1>7, <1>8, <1>9, <1>10, <1>11, <1>12, <1>13 DEF CacheInv

LEMMA StartKeeps ==
  ASSUME TypeInv, CacheInv, Start
  PROVE  CacheInv'
<1>1. /\ UNCHANGED <<file, edits, schema, meta>> /\ TypeOK
      /\ call'.pc = "walk" /\ call'.todo = Present /\ call'.seen = {} /\ call'.meta = meta
      /\ call'.of = None /\ call'.edited = FALSE
  BY StartEffect DEF Start, user, disk, TypeInv
<1>2. FilesInv' /\ Honest(meta)' /\ Honest(call.meta)'
  BY <1>1 DEF CacheInv, FilesInv, Honest, Matching
<1>3. Knows'
  BY <1>1 DEF Knows, Matching, Present
<1>4. Present' = Present
  BY <1>1 DEF Present
<1>5. ConvertInv' /\ Whole' /\ SweepInv' /\ Steady'
  BY <1>1, <1>4 DEF ConvertInv, Converting, Writing, Whole, Done, SweepInv, Steady, At
<1>6. QED
  BY <1>2, <1>3, <1>5 DEF CacheInv

(* A schema that is of a file is not torn.                                 *)
LEMMA OfFile ==
  ASSUME TypeOK, NEW f \in Files, file[f] # None
  PROVE  <<f, file[f].stamp>> \notin {None, Torn}
BY CallTyped, Bounds DEF TypeOK, Schema

LEMMA VisitKeeps ==
  ASSUME TypeInv, CacheInv, Visit
  PROVE  CacheInv'
<1>1. UNCHANGED <<file, edits, schema, meta>> /\ TypeOK /\ call.pc = "walk" /\ Working
  BY DEF Visit, user, disk, TypeInv, At, Working
<1>2. CASE call'.pc = "failed"
  BY <1>2, FailedKeeps DEF Visit
<1>3. ASSUME NEW f \in call.todo, file[f] # None,
             call'.todo = call.todo \ {f}, call'.seen = call.seen \cup {f},
             call'.edited = call.edited, KeepsClaims,
             \/ Unchanged(f) /\ call'.pc = "walk" /\ KeepsFile
             \/ /\ ~Unchanged(f) /\ call'.pc = "open"
                /\ call'.of = f /\ call'.stamp = file[f].stamp
      PROVE  CacheInv'
  <2>1. f \in Files /\ call.seen \in SUBSET Files /\ call'.meta = call.meta /\ call.of = None
    BY <1>1, <1>3, CallTyped DEF KeepsClaims, CacheInv, SweepInv
  <2>2. FilesInv' /\ Honest(meta)' /\ Honest(call.meta)'
    BY <1>1, <2>1 DEF CacheInv, FilesInv, Honest, Matching
  <2>3. Knows'
    <3>1. call'.todo \cup call'.seen = call.todo \cup call.seen
      BY <1>3
    <3>2. QED
      BY <1>1, <2>1, <3>1 DEF CacheInv, Knows, Matching
  <2>4. ~Unchanged(f) => ~Matching(call.meta, f) /\ ~Matching(meta, f)
    <3>1. Matching(call.meta, f) => Unchanged(f)
      BY <1>1, <1>3, <2>1, OfFile DEF CacheInv, Honest, Matching, Unchanged
    <3>2. Matching(meta, f) => Matching(call.meta, f)
      BY <1>1, <2>1 DEF CacheInv, Knows, Matching
    <3>3. QED
      BY <3>1, <3>2
  <2>5. ConvertInv'
    <3>1. file[f].stamp <= edits
      BY <1>3, <2>1 DEF CacheInv, FilesInv
    <3>2. QED
      BY <1>1, <1>3, <2>1, <2>4, <3>1 DEF ConvertInv, Converting, Writing, Matching
  <2>6. Unchanged(f) => Matching(call.meta, f)
    BY <1>3 DEF Unchanged, Matching
  <2>7. /\ Unchanged(f) => call'.of = None /\ Done' = Done \cup {f}
        /\ ~Unchanged(f) => Done' \subseteq Done
    BY <1>3, <2>1, Bounds DEF Done, KeepsFile
  <2>8. \A g \in Done : call.meta[g] # None => \A n \in call.meta[g].outputs : schema[n] # Torn
    BY <1>1 DEF CacheInv, Whole, At
  <2>9. \A g \in Done' : call.meta[g] # None => \A n \in call.meta[g].outputs : schema[n] # Torn
    <3>1. Unchanged(f) => \A n \in call.meta[f].outputs : schema[n] # Torn
      <4>1. SUFFICES ASSUME Matching(call.meta, f), NEW n \in call.meta[f].outputs
                     PROVE  schema[n] # Torn
        BY <2>6
      <4>2. schema[n] = <<f, file[f].stamp>>
        BY <1>1, <2>1, <4>1 DEF CacheInv, Honest
      <4>3. QED
        BY <1>1, <1>3, <2>1, <4>2, OfFile
    <3>2. QED
      BY <2>7, <2>8, <3>1
  <2>10. Whole'
    BY <1>1, <2>1, <2>9 DEF Whole
  <2>11. SweepInv'
    BY <1>3, <2>7 DEF SweepInv, At
  <2>12. Steady'
    <3>1. Present' = Present
      BY <1>1 DEF Present
    <3>2. ~call.edited => call.todo \cup call.seen = Present
          /\ \A g \in Done : Matching(call.meta, g)
      BY <1>1 DEF CacheInv, Steady
    <3>3. ~call.edited => \A g \in Done' : Matching(call.meta, g)
      BY <2>6, <2>7, <3>2
    <3>4. \A g : Matching(call.meta, g) => Matching(call.meta, g)'
      BY <1>1, <2>1 DEF Matching
    <3>5. Converting' => call'.of = f /\ call'.stamp = file[f].stamp
      BY <1>3 DEF Converting
    <3>6. QED
      BY <1>1, <1>3, <3>1, <3>2, <3>3, <3>4, <3>5 DEF Steady
  <2>13. QED
    BY <2>2, <2>3, <2>5, <2>10, <2>11, <2>12 DEF CacheInv
<1>4. QED
  BY <1>1, <1>2, <1>3, VisitEffect

LEMMA OpenKeeps ==
  ASSUME TypeInv, CacheInv, Open
  PROVE  CacheInv'
<1>1. /\ UNCHANGED <<file, edits, schema, meta>> /\ TypeOK
      /\ call.pc = "open" /\ Working /\ Converting /\ call.of \in Files
  BY DEF Open, user, disk, TypeInv, Shaped, At, Working, Converting
<1>2. CASE call'.pc = "failed"
  BY <1>2, FailedKeeps DEF Open
<1>3. CASE /\ file[call.of] # None /\ file[call.of] \in File /\ call'.pc = "write"
           /\ call'.read = file[call.of] /\ call'.names = file[call.of].names
           /\ call'.of = call.of /\ call'.stamp = call.stamp /\ KeepsWalk /\ KeepsClaims
  <2>1. /\ call'.meta = call.meta /\ call'.todo = call.todo /\ call'.seen = call.seen
        /\ call'.edited = call.edited /\ Done' = Done /\ Present' = Present
    BY <1>1, <1>3 DEF KeepsWalk, KeepsClaims, Done, Present
  <2>2. FilesInv' /\ Honest(meta)' /\ Honest(call.meta)'
    BY <1>1, <2>1 DEF CacheInv, FilesInv, Honest, Matching
  <2>3. Knows'
    BY <1>1, <2>1 DEF CacheInv, Knows, Matching
  <2>4. ASSUME NEW g \in Files, Matching(meta, g) \/ Matching(call.meta, g)
        PROVE  file[call.of].names \cap file[g].names = {}
    <3>1. g # call.of /\ file[g] # None
      BY <1>1, <2>4 DEF CacheInv, ConvertInv, Matching
    <3>2. QED
      BY <1>1, <1>3, <3>1 DEF CacheInv, FilesInv
  <2>5. ConvertInv'
    <3>1. /\ call.stamp <= edits /\ ~Matching(meta, call.of) /\ ~Matching(call.meta, call.of)
      BY <1>1 DEF CacheInv, ConvertInv
    <3>2. call'.pc # "fill"
      BY <1>3
    <3>3. QED
      BY <1>1, <1>3, <2>1, <2>4, <3>1, <3>2 DEF ConvertInv, Matching
  <2>6. Whole'
    BY <1>1, <1>3, <2>1 DEF CacheInv, Whole, At
  <2>7. SweepInv'
    BY <1>3 DEF SweepInv, At
  <2>8. Steady'
    BY <1>1, <1>3, <2>1 DEF CacheInv, Steady, Matching
  <2>9. QED
    BY <2>2, <2>3, <2>5, <2>6, <2>7, <2>8 DEF CacheInv
<1>4. QED
  BY <1>2, <1>3, OpenEffect

(* A schema under conversion is changed: no claim that matches has it.     *)
LEMMA WriteKeeps ==
  ASSUME TypeInv, CacheInv, Writing, NEW n \in call.names,
         UNCHANGED <<file, edits, meta>>, call'.pc \in {"write", "fill"},
         KeepsWalk, KeepsFile, KeepsClaims,
         \A m \in Names : m # n => schema'[m] = schema[m]
  PROVE  FilesInv' /\ Honest(meta)' /\ Honest(call.meta)' /\ Knows' /\ SweepInv' /\ Steady'
<1>1. /\ TypeOK /\ Working /\ call'.meta = call.meta /\ call'.todo = call.todo
      /\ call'.seen = call.seen /\ call'.of = call.of /\ call'.stamp = call.stamp
      /\ call'.edited = call.edited /\ Done' = Done /\ Present' = Present
  BY DEF TypeInv, Writing, Working, KeepsWalk, KeepsFile, KeepsClaims, Done, Present
<1>2. n \in call.read.names
  BY DEF CacheInv, ConvertInv
<1>3. \A f \in Files : file[f] # None => file[f].names \subseteq Names
  BY <1>1, CallTyped DEF TypeOK
<1>4. ASSUME NEW f \in Files, Matching(meta, f) \/ Matching(call.meta, f), NEW m \in file[f].names
      PROVE  schema'[m] = schema[m]
  <2>1. m # n
    BY <1>2, <1>4 DEF CacheInv, ConvertInv
  <2>2. m \in Names
    BY <1>3, <1>4 DEF Matching
  <2>3. QED
    BY <2>1, <2>2
<1>5. FilesInv'
  BY DEF CacheInv, FilesInv
<1>6. Honest(meta)'
  <2>1. \A f \in Files : Matching(meta, f)' => Matching(meta, f)
    BY DEF Matching
  <2>2. QED
    BY <1>4, <2>1 DEF CacheInv, Honest
<1>7. Honest(call.meta)'
  <2>1. \A f \in Files : Matching(call.meta, f)' => Matching(call.meta, f)
    BY <1>1 DEF Matching
  <2>2. Honest(call.meta)
    BY <1>1 DEF CacheInv
  <2>3. QED
    BY <1>1, <1>4, <2>1, <2>2 DEF Honest
<1>8. Knows'
  BY <1>1 DEF CacheInv, Knows, Matching
<1>9. SweepInv'
  BY DEF SweepInv, At
<1>10. Steady'
  BY <1>1 DEF CacheInv, Steady, Matching, Converting, Writing
<1>11. QED
  BY <1>5, <1>6, <1>7, <1>8, <1>9, <1>10

LEMMA TruncateKeeps ==
  ASSUME TypeInv, CacheInv, NEW n \in Names, Truncate(n)
  PROVE  CacheInv'
<1>1. /\ TypeOK /\ call.pc = "write" /\ Writing /\ Converting /\ Working /\ n \in call.names
      /\ UNCHANGED <<file, edits, meta>> /\ schema' = [schema EXCEPT ![n] = Torn]
  BY DEF Truncate, user, TypeInv, At, Writing, Converting, Working
<1>2. /\ call'.pc = "fill" /\ call'.name = n /\ call'.names = call.names
      /\ KeepsWalk /\ KeepsFile /\ KeepsClaims
  BY <1>1, TruncateEffect
<1>3. /\ call'.meta = call.meta /\ call'.of = call.of /\ call'.stamp = call.stamp
      /\ call'.read = call.read /\ Done' = Done
  BY <1>2 DEF KeepsWalk, KeepsFile, KeepsClaims, Done
<1>4. \A m \in Names : m # n => schema'[m] = schema[m]
  BY <1>1 DEF TypeOK
<1>5. FilesInv' /\ Honest(meta)' /\ Honest(call.meta)' /\ Knows' /\ SweepInv' /\ Steady'
  BY <1>1, <1>2, <1>4, WriteKeeps
<1>6. call.read.names \subseteq Names
      /\ \A f \in Files : call.meta[f] # None => call.meta[f].outputs \subseteq Names
  BY <1>1, CallTyped DEF TypeInv, Shaped, Claim
<1>7. ConvertInv'
  <2>1. /\ call.stamp <= edits /\ ~Matching(meta, call.of) /\ ~Matching(call.meta, call.of)
        /\ \A f \in Files : Matching(meta, f) \/ Matching(call.meta, f) =>
             call.read.names \cap file[f].names = {}
        /\ file[call.of] # None /\ file[call.of].stamp = call.stamp => call.read = file[call.of]
        /\ call.names \subseteq call.read.names
        /\ \A m \in call.read.names \ call.names : schema[m] = <<call.of, call.read.stamp>>
    BY <1>1 DEF CacheInv, ConvertInv
  <2>2. \A m \in call.read.names \ call.names : schema'[m] = <<call.of, call.read.stamp>>
    BY <1>1, <1>4, <1>6, <2>1
  <2>3. QED
    BY <1>1, <1>2, <1>3, <2>1, <2>2 DEF ConvertInv, Matching
<1>8. Whole'
  <2>1. \A f \in Done : call.meta[f] # None => \A m \in call.meta[f].outputs : schema[m] # Torn
    BY <1>1 DEF CacheInv, Whole, At
  <2>2. Done \subseteq Files
    BY <1>1, CallTyped DEF Done
  <2>3. \A f \in Done : call.meta[f] # None =>
          \A m \in call.meta[f].outputs : schema'[m] # Torn \/ m = n
    BY <1>4, <1>6, <2>1, <2>2
  <2>4. QED
    BY <1>2, <1>3, <2>3 DEF Whole, At
<1>9. QED
  BY <1>5, <1>7, <1>8 DEF CacheInv

LEMMA FillKeeps ==
  ASSUME TypeInv, CacheInv, Fill
  PROVE  CacheInv'
<1> DEFINE n == call.name
           s == <<call.of, call.read.stamp>>
<1>1. /\ TypeOK /\ call.pc = "fill" /\ Writing /\ Converting /\ Working
      /\ UNCHANGED <<file, edits, meta>> /\ schema' = [schema EXCEPT ![n] = s]
  BY DEF Fill, user, TypeInv, At, Writing, Converting, Working
<1>2. n \in Names /\ n \in call.names /\ call.of \in Files /\ call.read \in File
  BY <1>1 DEF TypeInv, Shaped, CacheInv, ConvertInv
<1>3. /\ call'.pc = "write" /\ call'.names = call.names \ {n}
      /\ KeepsWalk /\ KeepsFile /\ KeepsClaims
  BY <1>1, FillEffect
<1>4. /\ call'.meta = call.meta /\ call'.of = call.of /\ call'.stamp = call.stamp
      /\ call'.read = call.read /\ Done' = Done
  BY <1>3 DEF KeepsWalk, KeepsFile, KeepsClaims, Done
<1>5. schema'[n] = s /\ \A m \in Names : m # n => schema'[m] = schema[m]
  BY <1>1, <1>2 DEF TypeOK
<1>6. s # Torn
  BY <1>1, <1>2, CallTyped, Bounds DEF Schema
<1> HIDE DEF n, s
<1>7. FilesInv' /\ Honest(meta)' /\ Honest(call.meta)' /\ Knows' /\ SweepInv' /\ Steady'
  BY <1>1, <1>2, <1>3, <1>5, WriteKeeps
<1>8. call.read.names \subseteq Names
      /\ \A f \in Files : call.meta[f] # None => call.meta[f].outputs \subseteq Names
  BY <1>1, <1>2, CallTyped DEF Claim
<1>9. ConvertInv'
  <2>1. /\ call.stamp <= edits /\ ~Matching(meta, call.of) /\ ~Matching(call.meta, call.of)
        /\ \A f \in Files : Matching(meta, f) \/ Matching(call.meta, f) =>
             call.read.names \cap file[f].names = {}
        /\ file[call.of] # None /\ file[call.of].stamp = call.stamp => call.read = file[call.of]
        /\ call.names \subseteq call.read.names
        /\ \A m \in call.read.names \ call.names : schema[m] = <<call.of, call.read.stamp>>
    BY <1>1 DEF CacheInv, ConvertInv
  <2>2. \A m \in call.read.names \ call'.names : schema'[m] = <<call.of, call.read.stamp>>
    BY <1>3, <1>5, <1>8, <2>1 DEF s
  <2>3. call'.names \subseteq call.read.names
    BY <1>3, <2>1
  <2>4. QED
    BY <1>1, <1>3, <1>4, <2>1, <2>2, <2>3 DEF ConvertInv, Matching
<1>10. Whole'
  <2>1. \A f \in Done : call.meta[f] # None =>
          \A m \in call.meta[f].outputs : schema[m] # Torn \/ m = n
    BY <1>1 DEF CacheInv, Whole, At, n
  <2>2. Done \subseteq Files
    BY <1>1, CallTyped DEF Done
  <2>3. \A f \in Done : call.meta[f] # None => \A m \in call.meta[f].outputs : schema'[m] # Torn
    BY <1>5, <1>6, <1>8, <2>1, <2>2
  <2>4. QED
    BY <1>4, <2>3 DEF Whole
<1>11. QED
  BY <1>7, <1>9, <1>10 DEF CacheInv

LEMMA ConvertKeeps ==
  ASSUME TypeInv, CacheInv, Convert
  PROVE  CacheInv'
<1> DEFINE g == call.of
<1>1. /\ TypeOK /\ call.pc = "write" /\ Writing /\ Converting /\ Working
      /\ call.names = {} /\ call.read.ok
      /\ UNCHANGED <<file, edits, schema, meta>>
  BY DEF Convert, Decodes, user, disk, TypeInv, At, Writing, Converting, Working
<1>2. /\ call'.pc = "walk" /\ call'.of = None /\ KeepsWalk /\ Claimed # None
      /\ call'.meta = [call.meta EXCEPT ![g] = Claimed]
  BY ConvertEffect, Bounds
<1>3. /\ call'.todo = call.todo /\ call'.seen = call.seen /\ call'.edited = call.edited
      /\ g \in Files /\ call.read \in File /\ call.seen \in SUBSET Files
      /\ call.meta \in [Files -> Claim \cup {None}]
  BY <1>1, <1>2, CallTyped DEF KeepsWalk, TypeInv, Shaped
<1>4. /\ call.stamp <= edits /\ ~Matching(meta, g) /\ ~Matching(call.meta, g)
      /\ file[g] # None /\ file[g].stamp = call.stamp => call.read = file[g]
      /\ \A n \in call.read.names : schema[n] = <<g, call.read.stamp>>
  BY <1>1 DEF CacheInv, ConvertInv
<1>5. /\ call'.meta[g] = Claimed /\ \A f \in Files : f # g => call'.meta[f] = call.meta[f]
      /\ Claimed.stamp = call.stamp /\ Claimed.outputs = call.read.names
  BY <1>2, <1>3 DEF Claimed
<1> HIDE DEF g
<1>6. FilesInv' /\ Honest(meta)'
  BY <1>1 DEF CacheInv, FilesInv, Honest, Matching
<1>7. Honest(call.meta)'
  <2>1. Honest(call.meta)
    BY <1>1 DEF CacheInv
  <2>2. \A f \in Files : call'.meta[f] # None => call'.meta[f].stamp <= edits
    BY <1>4, <1>5, <2>1 DEF Honest
  <2>3. ASSUME NEW f \in Files, Matching(call.meta, f)'
        PROVE  /\ file[f].ok /\ call'.meta[f].outputs = file[f].names
               /\ \A n \in file[f].names : schema[n] = <<f, file[f].stamp>>
    <3>1. CASE f = g
      <4>1. file[g] # None /\ file[g].stamp = call.stamp
        BY <1>1, <1>5, <2>3, <3>1 DEF Matching
      <4>2. QED
        BY <1>1, <1>4, <1>5, <3>1, <4>1
    <3>2. CASE f # g
      BY <1>1, <1>5, <2>1, <2>3, <3>2 DEF Honest, Matching
    <3>3. QED
      BY <3>1, <3>2
  <2>4. QED
    BY <1>1, <2>2, <2>3 DEF Honest
<1>8. Knows'
  <2>1. \A f \in Files : Matching(meta, f)' => Matching(meta, f) /\ f # g
    BY <1>1, <1>4 DEF Matching
  <2>2. QED
    BY <1>1, <1>3, <1>5, <2>1 DEF CacheInv, Knows
<1>9. ConvertInv'
  BY <1>2 DEF ConvertInv, Converting, Writing
<1>10. Done' \subseteq Done \cup {g}
  BY <1>3 DEF Done, g
<1>11. Whole'
  <2>1. \A f \in Done : call.meta[f] # None => \A n \in call.meta[f].outputs : schema[n] # Torn
    BY <1>1 DEF CacheInv, Whole, At
  <2>2. Done \subseteq Files /\ g \notin Done
    BY <1>3 DEF Done, g
  <2>3. <<g, call.read.stamp>> # Torn
    BY <1>1, <1>3, CallTyped, Bounds DEF Schema
  <2>4. \A f \in Done' : call'.meta[f] # None => \A n \in call'.meta[f].outputs : schema[n] # Torn
    BY <1>4, <1>5, <1>10, <2>1, <2>2, <2>3
  <2>5. QED
    BY <1>1, <2>4 DEF Whole
<1>12. SweepInv'
  BY <1>2 DEF SweepInv, At
<1>13. Steady'
  <2>1. Present' = Present
    BY <1>1 DEF Present
  <2>2. ~call.edited => /\ call.todo \cup call.seen = Present
                        /\ \A f \in Done : Matching(call.meta, f)
                        /\ call.stamp = file[g].stamp
    BY <1>1 DEF CacheInv, Steady, g
  <2>3. ~call.edited /\ g \in Done' =>
          call'.meta[g] # None /\ file[g] # None /\ call'.meta[g].stamp = file[g].stamp
    <3>1. g \in Done' => g \in call.seen
      BY <1>3 DEF Done
    <3>2. ~call.edited /\ g \in call.seen => file[g] # None
      BY <2>2 DEF Present
    <3>3. QED
      BY <1>2, <1>5, <2>2, <3>1, <3>2
  <2>4. \A f \in Done : Matching(call.meta, f) => Matching(call.meta, f)'
    <3>1. Done \subseteq Files /\ g \notin Done
      BY <1>3 DEF Done, g
    <3>2. QED
      BY <1>1, <1>5, <3>1 DEF Matching
  <2>5. ~Converting'
    BY <1>2 DEF Converting
  <2>6. ~call.edited => \A f \in Done' : Matching(call.meta, f)'
    BY <1>1, <1>10, <2>2, <2>3, <2>4 DEF Matching
  <2>7. QED
    BY <1>3, <2>1, <2>2, <2>5, <2>6 DEF Steady
<1>14. QED
  BY <1>6, <1>7, <1>8, <1>9, <1>11, <1>12, <1>13 DEF CacheInv

LEMMA ForgetKeeps ==
  ASSUME TypeInv, CacheInv, Forget
  PROVE  CacheInv'
<1>1. /\ TypeOK /\ call.pc = "walk" /\ Working /\ call.todo = {} /\ call.of = None
      /\ UNCHANGED <<file, edits, schema, meta>>
  BY DEF Forget, user, disk, TypeInv, At, Working, CacheInv, SweepInv
<1>2. /\ call'.pc = "sweep" /\ KeepsWalk /\ KeepsFile
      /\ call'.meta = [f \in Files |-> IF f \in call.seen THEN call.meta[f] ELSE None]
      /\ call'.names = {n \in Names : schema[n] # None} \ Live(call'.meta)
  BY <1>1, ForgetEffect
<1>3. /\ call'.todo = {} /\ call'.seen = call.seen /\ call'.edited = call.edited /\ call'.of = None
      /\ call.seen \in SUBSET Files /\ Done' = Done /\ Done \subseteq call.seen
         /\ Present' = Present
  BY <1>1, <1>2, CallTyped DEF KeepsWalk, KeepsFile, Done, Present
<1>4. /\ \A f \in Files : f \in call.seen => call'.meta[f] = call.meta[f]
      /\ \A f \in Files : f \notin call.seen => call'.meta[f] = None
  BY <1>2
<1>5. FilesInv' /\ Honest(meta)'
  BY <1>1 DEF CacheInv, FilesInv, Honest, Matching
<1>6. Honest(call.meta)'
  <2>1. Honest(call.meta)
    BY <1>1 DEF CacheInv
  <2>2. \A f \in Files : call'.meta[f] \in {call.meta[f], None}
    BY <1>4
  <2>3. QED
    BY <1>1, <2>1, <2>2 DEF Honest, Matching
<1>7. Knows'
  BY <1>1, <1>3, <1>4 DEF CacheInv, Knows, Matching
<1>8. ConvertInv'
  BY <1>2 DEF ConvertInv, Converting, Writing
<1>9. Whole'
  <2>1. \A f \in Done : call.meta[f] # None => \A n \in call.meta[f].outputs : schema[n] # Torn
    BY <1>1 DEF CacheInv, Whole, At
  <2>2. QED
    BY <1>1, <1>3, <1>4, <2>1 DEF Whole
<1>10. SweepInv'
  <2>1. \A n \in Names : schema[n] # None => n \in call'.names \cup Live(call'.meta)
    BY <1>2
  <2>2. call'.names \cap Live(call'.meta) = {}
    BY <1>2
  <2>3. Live(call.meta)' = Live(call'.meta)
    BY DEF Live
  <2>4. QED
    BY <1>1, <1>2, <1>3, <1>4, <2>1, <2>2, <2>3 DEF SweepInv, At
<1>11. Steady'
  <2>1. ~call.edited => /\ call.todo \cup call.seen = Present
                        /\ \A f \in Done : Matching(call.meta, f)
    BY <1>1 DEF CacheInv, Steady
  <2>2. \A f \in Done : Matching(call.meta, f) => Matching(call.meta, f)'
    BY <1>1, <1>3, <1>4 DEF Matching
  <2>3. ~Converting'
    BY <1>2 DEF Converting
  <2>4. QED
    BY <1>1, <1>3, <2>1, <2>2, <2>3 DEF Steady
<1>12. QED
  BY <1>5, <1>6, <1>7, <1>8, <1>9, <1>10, <1>11 DEF CacheInv

LEMMA SweepKeeps ==
  ASSUME TypeInv, CacheInv, NEW n \in Names, Sweep(n)
  PROVE  CacheInv'
<1>1. /\ TypeOK /\ call.pc = "sweep" /\ Working /\ n \in call.names
      /\ UNCHANGED <<file, edits, meta>> /\ schema' = [schema EXCEPT ![n] = None]
  BY DEF Sweep, user, TypeInv, At, Working
<1>2. call'.pc = "sweep" /\ call'.names = call.names \ {n} /\ KeepsWalk /\ KeepsFile /\ KeepsClaims
  BY <1>1, SweepEffect
<1>3. /\ call'.todo = call.todo /\ call'.seen = call.seen /\ call'.edited = call.edited
      /\ call'.of = call.of /\ call'.meta = call.meta /\ Done' = Done /\ Present' = Present
      /\ Live(call.meta)' = Live(call.meta)
  BY <1>1, <1>2 DEF KeepsWalk, KeepsFile, KeepsClaims, Done, Present, Live
<1>4. schema'[n] = None /\ \A m \in Names : m # n => schema'[m] = schema[m]
  BY <1>1 DEF TypeOK
<1>5. n \notin Live(call.meta)
  BY <1>1 DEF CacheInv, SweepInv, At
<1>6. \A f \in Files : call.meta[f] # None =>
        call.meta[f].outputs \subseteq Live(call.meta) /\ call.meta[f].outputs \subseteq Names
  BY <1>1, CallTyped DEF Live, Claim
<1>7. \A f \in Files : call.meta[f] # None => \A m \in call.meta[f].outputs : schema'[m] = schema[m]
  BY <1>4, <1>5, <1>6
<1>8. FilesInv'
  BY <1>1 DEF CacheInv, FilesInv
<1>9. Honest(call.meta) /\ Honest(meta)
  BY <1>1 DEF CacheInv
<1>10. ASSUME NEW f \in Files, Matching(call.meta, f), NEW m \in file[f].names
       PROVE  schema'[m] = <<f, file[f].stamp>>
  BY <1>7, <1>9, <1>10 DEF Honest, Matching
<1>11. Honest(call.meta)'
  BY <1>1, <1>3, <1>9, <1>10 DEF Honest, Matching
<1>12. Honest(meta)'
  <2>1. \A f \in Files : Matching(meta, f) => Matching(call.meta, f)
    BY <1>1 DEF CacheInv, Knows, Matching
  <2>2. QED
    BY <1>1, <1>9, <1>10, <2>1 DEF Honest, Matching
<1>13. Knows'
  BY <1>1, <1>3 DEF CacheInv, Knows, Matching
<1>14. ConvertInv'
  BY <1>2 DEF ConvertInv, Converting, Writing
<1>15. Whole'
  <2>1. \A f \in Done : call.meta[f] # None => \A m \in call.meta[f].outputs : schema[m] # Torn
    BY <1>1 DEF CacheInv, Whole, At
  <2>2. Done \subseteq Files
    BY <1>1, CallTyped DEF Done
  <2>3. QED
    BY <1>3, <1>7, <2>1, <2>2 DEF Whole
<1>16. SweepInv'
  BY <1>1, <1>2, <1>3, <1>4 DEF CacheInv, SweepInv, At
<1>17. Steady'
  BY <1>1, <1>2, <1>3 DEF CacheInv, Steady, Matching, Converting
<1>18. QED
  BY <1>8, <1>11, <1>12, <1>13, <1>14, <1>15, <1>16, <1>17 DEF CacheInv

LEMMA SaveKeeps ==
  ASSUME TypeInv, CacheInv, Save
  PROVE  CacheInv'
<1>1. /\ TypeOK /\ call.pc = "sweep" /\ Working /\ call.names = {}
      /\ UNCHANGED <<file, edits, schema>>
  BY DEF Save, user, TypeInv, At, Working
<1>2. CASE call'.pc = "failed" /\ meta' = meta
  BY <1>1, <1>2, FailedKeeps DEF user, disk
<1>3. CASE /\ call'.pc = "ready" /\ meta' = call.meta /\ call'.names = {}
           /\ KeepsWalk /\ KeepsFile /\ KeepsClaims
  <2>1. /\ call'.todo = call.todo /\ call'.seen = call.seen /\ call'.edited = call.edited
        /\ call'.of = call.of /\ call'.meta = call.meta /\ Done' = Done /\ Present' = Present
        /\ Live(call.meta)' = Live(call.meta)
    BY <1>1, <1>3 DEF KeepsWalk, KeepsFile, KeepsClaims, Done, Present, Live
  <2>2. FilesInv' /\ Honest(meta)'
    BY <1>1, <1>3 DEF CacheInv, FilesInv, Honest, Matching
  <2>3. ~Working' /\ ~Converting' /\ ~Writing'
    BY <1>3 DEF Working, Converting, Writing
  <2>4. Knows' /\ ConvertInv'
    BY <1>3, <2>3 DEF Knows, ConvertInv
  <2>5. Whole'
    <3>1. \A f \in Done : call.meta[f] # None => \A m \in call.meta[f].outputs : schema[m] # Torn
      BY <1>1 DEF CacheInv, Whole, At
    <3>2. QED
      BY <1>1, <2>1, <3>1 DEF Whole
  <2>6. SweepInv'
    BY <1>1, <1>3, <2>1 DEF CacheInv, SweepInv, At
  <2>7. Steady'
    BY <1>1, <2>1, <2>3 DEF CacheInv, Steady, Matching
  <2>8. QED
    BY <2>2, <2>3, <2>4, <2>5, <2>6, <2>7 DEF CacheInv
<1>4. QED
  BY <1>1, <1>2, <1>3, SaveEffect

LEMMA CacheNext == ~Overlaps /\ TypeInv /\ CacheInv /\ [Next]_vars => CacheInv'
<1> SUFFICES ASSUME ~Overlaps, TypeInv, CacheInv, [Next]_vars PROVE CacheInv'
  OBVIOUS
<1>1. CASE UNCHANGED vars
  <2>1. UNCHANGED <<file, edits, schema, meta, call>>
    BY <1>1 DEF vars, user, disk
  <2>2. FilesInv' /\ Honest(meta)' /\ (Working' => Honest(call.meta)')
    BY <2>1 DEF CacheInv, FilesInv, Honest, Matching, Working
  <2>3. Knows' /\ ConvertInv' /\ Whole'
    BY <2>1 DEF CacheInv, Knows, ConvertInv, Whole, Matching, Working, Converting, Writing, Done, At
  <2>4. SweepInv' /\ Steady'
    BY <2>1 DEF CacheInv, SweepInv, Steady, Matching, Working, Converting, Done, At, Live, Present
  <2>5. QED
    BY <2>2, <2>3, <2>4 DEF CacheInv
<1>2. ASSUME NEW f \in Files,
             Delete(f) \/ \E names \in SUBSET Names, ok \in BOOLEAN : Write(f, names, ok)
      PROVE  CacheInv'
  <2>1. PICK c \in File \cup {None} : Change(f, c) /\ Separate(f, c)
    BY <1>2, UserChange DEF TypeInv
  <2>2. QED
    BY <2>1, UserKeeps
<1>3. CASE Start \/ Visit \/ Open \/ Fill
  BY <1>3, StartKeeps, VisitKeeps, OpenKeeps, FillKeeps
<1>4. CASE Convert \/ Forget \/ Save
  BY <1>4, ConvertKeeps, ForgetKeeps, SaveKeeps
<1>5. ASSUME NEW n \in Names, Truncate(n) \/ Sweep(n) PROVE CacheInv'
  BY <1>5, TruncateKeeps, SweepKeeps
<1>6. CASE Malformed \/ Exit
  <2>1. UNCHANGED <<user, disk>> /\ call'.pc \in {"failed", "idle"}
    BY <1>6, FailEffect DEF Malformed, Exit, Idle, TypeInv
  <2>2. QED
    BY <2>1, FailedKeeps
<1>7. QED
  BY <1>1, <1>2, <1>3, <1>4, <1>5, <1>6 DEF Next, Step

LEMMA CacheInit == Init => CacheInv
<1> SUFFICES ASSUME Init PROVE CacheInv
  OBVIOUS
<1>1. /\ \A f \in Files : file[f] = None /\ meta[f] = None
      /\ call.pc = "idle"
  BY DEF Init, NoClaims, Idle
<1>2. FilesInv /\ Honest(meta)
  BY <1>1 DEF FilesInv, Honest, Matching
<1>3. ~Working /\ ~Converting /\ ~Writing /\ ~At("ready") /\ ~At("sweep")
  BY <1>1 DEF Working, Converting, Writing, At
<1>4. QED
  BY <1>1, <1>2, <1>3 DEF CacheInv, Knows, ConvertInv, Whole, SweepInv, Steady

(* When validate reads the schema directory after a successful call, no    *)
(* schema is half-written, and without edits during the call they are      *)
(* those of the CRD files as they are: whatever calls were killed between  *)
(* any two steps before, and whatever files were edited, removed or        *)
(* renamed (CRDYAMLToSchemaDir).  The files define different schemas; with *)
(* Overlaps the claim of one file hides the torn schema of another.        *)
THEOREM ReadySchemasAreCurrent == ASSUME ~Overlaps PROVE Spec => []ReadyIsCurrent
<1>1. TypeInv /\ CacheInv => ReadyIsCurrent
  <2> SUFFICES ASSUME TypeInv, CacheInv, call.pc = "ready"
               PROVE  /\ \A n \in Names : schema[n] # Torn
                      /\ ~call.edited =>
                           /\ \A f \in Present : file[f].ok
                           /\ \A n \in Names :
                                schema[n] \in IF Current(n) = {} THEN {None} ELSE Current(n)
    BY DEF ReadyIsCurrent, At
  <2>1. /\ call.todo = {} /\ call.of = None /\ call.names = {} /\ meta = call.meta
        /\ \A f \in Files : call.meta[f] # None => f \in call.seen
        /\ \A n \in Names : schema[n] # None => n \in Live(call.meta)
    BY DEF CacheInv, SweepInv, At
  <2>2. TypeOK /\ call.seen \subseteq Files /\ Done = call.seen
    BY <2>1, CallTyped, Bounds DEF TypeInv, Done
  <2>3. ASSUME NEW n \in Names PROVE schema[n] # Torn
    <3>1. CASE schema[n] = None
      BY <3>1, Bounds
    <3>2. CASE schema[n] # None
      <4>1. PICK f \in Files : call.meta[f] # None /\ n \in call.meta[f].outputs
        BY <2>1, <3>2 DEF Live
      <4>2. QED
        BY <2>1, <2>2, <4>1 DEF CacheInv, Whole, At
    <3>3. QED
      BY <3>1, <3>2
  <2>4. ASSUME ~call.edited
        PROVE  /\ \A f \in Present : file[f].ok
               /\ \A n \in Names : schema[n] \in IF Current(n) = {} THEN {None} ELSE Current(n)
    <3>1. call.seen = Present /\ \A f \in Present : Matching(meta, f)
      BY <2>1, <2>2, <2>4 DEF CacheInv, Steady, At
    <3>2. \A f \in Present : /\ f \in Files /\ file[f].ok /\ meta[f].outputs = file[f].names
                             /\ \A n \in file[f].names : schema[n] = <<f, file[f].stamp>>
      BY <3>1 DEF CacheInv, Honest, Present
    <3>3. ASSUME NEW n \in Names, Current(n) = {} PROVE schema[n] = None
      <4>1. SUFFICES ASSUME schema[n] # None PROVE FALSE
        OBVIOUS
      <4>2. PICK f \in Files : meta[f] # None /\ n \in meta[f].outputs
        BY <2>1, <4>1 DEF Live
      <4>3. f \in Present /\ n \in file[f].names
        BY <2>1, <3>1, <3>2, <4>2
      <4>4. <<f, file[f].stamp>> \in Current(n)
        BY <4>3 DEF Current
      <4>5. QED
        BY <3>3, <4>4
    <3>4. ASSUME NEW n \in Names, Current(n) # {} PROVE schema[n] \in Current(n)
      <4>1. PICK f \in Present : n \in file[f].names
        BY <3>4 DEF Current
      <4>2. schema[n] = <<f, file[f].stamp>>
        BY <3>2, <4>1
      <4>3. QED
        BY <4>1, <4>2 DEF Current
    <3>5. QED
      BY <3>2, <3>3, <3>4
  <2>5. QED
    BY <2>3, <2>4
<1>2. QED
  BY <1>1, TypeInit, CacheInit, TypeNext, CacheNext, PTL DEF Spec

(* The claims on disk are honest, at any moment of a call and after any    *)
(* death: a file the manifest has at its present stamp decodes, is claimed *)
(* with all it defines, and its schemas are of that stamp.  Only this lets *)
(* a later run skip the conversion (convertCRDWalkEntry).                  *)
THEOREM ManifestIsHonest == ASSUME ~Overlaps PROVE Spec => []Honest(meta)
<1>1. CacheInv => Honest(meta)
  BY DEF CacheInv
<1>2. QED
  BY <1>1, TypeInit, CacheInit, TypeNext, CacheNext, PTL DEF Spec
=============================================================================
