------------------------------- MODULE CRDCache -------------------------------
(***************************************************************************)
(* The conversion of the CRD files under --schema-dir into JSON schemas    *)
(* kept in a cache directory (internal/validate/crd.go): a walk converts   *)
(* the files whose stamp (size and modification time) changed, a sweep     *)
(* deletes the schemas nobody claims, the manifest is saved, and validate  *)
(* then reads the schemas.  Files are edited, and the process killed, at   *)
(* any moment.                                                             *)
(***************************************************************************)
EXTENDS Naturals, Sequences, SequencesExt

CONSTANTS
  Order,      (* the file names, in the order of the walk                  *)
  Names,      (* schema file names: kind, first group label and version    *)
  Overlaps,   (* may two files define the same schema?                     *)
  MaxEdits,   (* bound on the changes of files                             *)
  None,
  Torn        (* a schema file truncated and not yet written               *)

Files  == ToSet(Order)
Stamps == 0 .. MaxEdits

(* A file: the schemas it defines, whether it decodes to its end, and its  *)
(* stamp.  A schema's content is named after the file and stamp it is of.  *)
File   == [names : SUBSET Names, ok : BOOLEAN, stamp : Stamps]
Schema == Files \X Stamps
Claim  == [stamp : Stamps, outputs : SUBSET Names]

ASSUME ConstantsAssumption ==
  /\ Order \in Seq(Files) /\ IsInjective(Order)
  /\ Overlaps \in BOOLEAN
  /\ MaxEdits \in Nat
  /\ None \notin File \cup Schema \cup Claim \cup Files \cup Names \cup {Torn}
  /\ Torn \notin Schema

VARIABLES
  file,    (* the CRD files                                                *)
  edits,   (* how often one of them changed                                *)
  schema,  (* the cache directory                                          *)
  meta,    (* meta.json in it                                              *)
  call     (* of CRDYAMLToSchemaDir                                        *)

user == <<file, edits>>
disk == <<schema, meta>>
vars == <<user, disk, call>>

Stages == {"idle", "walk", "open", "write", "fill", "sweep", "ready", "failed"}

(* todo: entries of the walk not visited; seen, meta: as in the code; of:  *)
(* the file in conversion, with its stamp when visited and its content     *)
(* when read; names: schemas to write or to delete; name: the one being    *)
(* written; edited: a file changed since the call began.                   *)
Call == [pc : Stages, todo : SUBSET Files, seen : SUBSET Files,
         meta : [Files -> Claim \cup {None}],
         of : Files \cup {None}, stamp : Stamps, read : File \cup {None},
         names : SUBSET Names, name : Names \cup {None}, edited : BOOLEAN]

NoClaims == [f \in Files |-> None]

Idle == [pc |-> "idle", todo |-> {}, seen |-> {}, meta |-> NoClaims,
         of |-> None, stamp |-> 0, read |-> None, names |-> {},
         name |-> None, edited |-> FALSE]

TypeOK ==
  /\ file \in [Files -> File \cup {None}]
  /\ edits \in Stamps
  /\ schema \in [Names -> Schema \cup {None, Torn}]
  /\ meta \in [Files -> Claim \cup {None}]
  /\ call \in Call

Init ==
  /\ file = [f \in Files |-> None]
  /\ edits = 0
  /\ schema = [n \in Names |-> None]
  /\ meta = NoClaims
  /\ call = Idle

At(stage) == call.pc = stage
Present   == {f \in Files : file[f] # None}

-----------------------------------------------------------------------------
(* The user.                                                               *)
Change(f, content) ==
  /\ edits < MaxEdits
  /\ edits' = edits + 1
  /\ file' = [file EXCEPT ![f] = content]
  /\ call' = [call EXCEPT !.edited = call.pc # "idle"]
  /\ UNCHANGED disk

Write(f, names, ok) ==
  /\ Overlaps \/ \A g \in Present \ {f} : file[g].names \cap names = {}
  /\ Change(f, [names |-> names, ok |-> ok, stamp |-> edits + 1])

Delete(f) ==
  /\ f \in Present
  /\ Change(f, None)

-----------------------------------------------------------------------------
(* convertCRDFiles.                                                        *)
Start ==
  /\ At("idle")
  /\ call' = [Idle EXCEPT !.pc = "walk", !.todo = Present, !.meta = meta]
  /\ UNCHANGED <<user, disk>>

First(S) == CHOOSE f \in S : \A i, j \in DOMAIN Order :
                               Order[i] = f /\ Order[j] \in S => i <= j

Unchanged_AnyStamp(f) ==
  /\ call.meta[f] # None
  /\ \A n \in call.meta[f].outputs : schema[n] # None

(* A conversion is fresh when the stamp is the same and its outputs exist. *)
Unchanged(f) ==
  /\ call.meta[f] # None
  /\ call.meta[f].stamp = file[f].stamp
  /\ \A n \in call.meta[f].outputs : schema[n] # None

Fail == call' = [call EXCEPT !.pc = "failed"]

(* convertCRDWalkEntry, up to the conversion.                              *)
Visit ==
  /\ At("walk")
  /\ call.todo # {}
  /\ LET f == First(call.todo)
         b == [call EXCEPT !.todo = @ \ {f}, !.seen = @ \cup {f}] IN
     \/ /\ f \notin Present
        /\ Fail
     \/ /\ f \in Present
        /\ Unchanged(f)
        /\ call' = b
     \/ /\ f \in Present
        /\ ~Unchanged(f)
        /\ call' = [b EXCEPT !.pc = "open", !.of = f, !.stamp = file[f].stamp]
  /\ UNCHANGED <<user, disk>>

(* crdFileToSchemas: the file is opened, then its schemas are written one  *)
(* after the other, each first truncated; a file that does not decode to   *)
(* its end fails the run after the documents before.                       *)
Open ==
  /\ At("open")
  /\ IF call.of \in Present
     THEN call' = [call EXCEPT !.pc = "write", !.read = file[call.of],
                               !.names = file[call.of].names]
     ELSE Fail
  /\ UNCHANGED <<user, disk>>

Truncate(n) ==
  /\ At("write")
  /\ n \in call.names
  /\ schema' = [schema EXCEPT ![n] = Torn]
  /\ call' = [call EXCEPT !.pc = "fill", !.name = n]
  /\ UNCHANGED <<user, meta>>

Fill ==
  /\ At("fill")
  /\ schema' = [schema EXCEPT ![call.name] = <<call.of, call.read.stamp>>]
  /\ call' = [call EXCEPT !.pc = "write", !.names = @ \ {call.name}, !.name = None]
  /\ UNCHANGED <<user, meta>>

Decodes == call.names = {} /\ call.read.ok

Claimed_RoundedUp == [stamp |-> call.stamp + 1, outputs |-> call.read.names]

(* The claim carries the stamp the walk saw, which may be older than what  *)
(* was read.                                                               *)
Claimed == [stamp |-> call.stamp, outputs |-> call.read.names]

Convert ==
  /\ At("write")
  /\ Decodes
  /\ call' = [call EXCEPT !.pc = "walk", !.of = None, !.read = None,
                          !.meta[call.of] = Claimed]
  /\ UNCHANGED <<user, disk>>

Malformed ==
  /\ At("write")
  /\ ~call.read.ok
  /\ Fail
  /\ UNCHANGED <<user, disk>>

-----------------------------------------------------------------------------
Seen(f) == IF f \in call.seen THEN call.meta[f] ELSE None

Live(claims) == UNION {claims[f].outputs : f \in {g \in Files : claims[g] # None}}

(* forgetUnseen, and the listing sweepCRDCache works from.                 *)
Forget ==
  /\ At("walk")
  /\ call.todo = {}
  /\ LET claims == [f \in Files |-> Seen(f)] IN
     call' = [call EXCEPT !.pc = "sweep", !.meta = claims,
                !.names = {n \in Names : schema[n] # None} \ Live(claims)]
  /\ UNCHANGED <<user, disk>>

Sweep(n) ==
  /\ At("sweep")
  /\ n \in call.names
  /\ schema' = [schema EXCEPT ![n] = None]
  /\ call' = [call EXCEPT !.names = @ \ {n}]
  /\ UNCHANGED <<user, meta>>

(* saveCRDCacheMeta; validate goes on to read the schemas.                 *)
Save ==
  /\ At("sweep")
  /\ call.names = {}
  /\ \/ meta' = call.meta /\ call' = [call EXCEPT !.pc = "ready"]
     \/ meta' = meta /\ Fail
  /\ UNCHANGED <<user, schema>>

(* The end of the process, or its death at any point.                      *)
Exit ==
  /\ ~At("idle")
  /\ call' = Idle
  /\ UNCHANGED <<user, disk>>

Step ==
  \/ Start \/ Visit \/ Open \/ Fill \/ Convert \/ Malformed \/ Forget \/ Save
  \/ \E n \in Names : Truncate(n) \/ Sweep(n)
  \/ Exit

Next ==
  \/ \E f \in Files, names \in SUBSET Names, ok \in BOOLEAN : Write(f, names, ok)
  \/ \E f \in Files : Delete(f)
  \/ Step

Spec == Init /\ [][Next]_vars

-----------------------------------------------------------------------------
Current(n) == {<<f, file[f].stamp>> : f \in {g \in Present : n \in file[g].names}}

(* When validate reads the schemas, none is half-written, not even after   *)
(* edits during the call: a killed run does not pin a truncated file.  And *)
(* but for such edits every file decoded - a malformed one is reported by  *)
(* every run - and the schemas are those of the files as they are: nothing *)
(* missing, stale or left over, whatever was killed, edited or removed     *)
(* before, with files that define different schemas.                       *)
ReadyIsCurrent ==
  At("ready") =>
    /\ \A n \in Names : schema[n] # Torn
    /\ ~call.edited =>
         /\ \A f \in Present : file[f].ok
         /\ \A n \in Names : schema[n] \in IF Current(n) = {} THEN {None} ELSE Current(n)
=============================================================================
