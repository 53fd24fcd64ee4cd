---------------------------- MODULE NewsCapture ----------------------------
(***************************************************************************)
(* The restartable capture of a frozen news snapshot: a command appends one *)
(* page at a time to immutable part files under a manifest, and then plans  *)
(* the replay of the whole.  Commands run one at a time under owner.lock;   *)
(* each may stop between any two file operations, and a write may fail      *)
(* before or after it took effect.  Source: xauusd_news/news_projection.py  *)
(* (NewsProjectionSourceCapture), dashboard/news_resources.py               *)
(* (_advance_news_projection_capture), bootstrap_news_projection.py.        *)
(*                                                                          *)
(* A part is what its bytes are: the rows of the snapshot it holds, where   *)
(* it stands and the reader that wrote them; its name is the digest of      *)
(* these.  A written manifest is whole, because it is replaced at once.     *)
(***************************************************************************)
EXTENDS Integers, Sequences, FiniteSets, FiniteSetsExt, SequencesExt

CONSTANTS
  Commands,    \* the processes of the capture, each started again and again
  Sizes,       \* <<bytes of each row of the snapshot, in cursor order>>
  Original,    \* the reader of the capture's own source identity
  Corrected,   \* later readers with a proof that they read an accepted part alike
  PAGE_ITEMS, PART_BYTES, TOTAL_BYTES, DISK_BYTES,
  MANIFEST,    \* bytes of a manifest
  BACKOFF, MaxClock,
  MaxLosses    \* bound: failed reads and writes, stopped commands

VARIABLES
  parts,    \* part files on disk
  published,    \* the manifest on disk, or Unwritten
  temps,    \* bytes of the temporaries that stopped commands left
  pinned,   \* the replay artifact, or Unpinned
  lock,     \* the command that holds owner.lock, or Free
  proc,     \* the local variables of each command
  clock,
  losses

captureVars == <<parts, published, temps, pinned, lock, proc, clock, losses>>

RowCount == Len(Sizes)
Readers == {Original} \cup Corrected
Unlocked == "free"
\* A step reads a row at least, and what a later reader and a command are called tells them
\* from the original reader and from nobody.
ASSUME CaptureAssumption ==
  /\ Sizes \in Seq(Nat) /\ PAGE_ITEMS \in Nat \ {0}
  /\ {PART_BYTES, TOTAL_BYTES, DISK_BYTES, MANIFEST, BACKOFF, MaxClock, MaxLosses} \subseteq Nat
  /\ Original \notin Corrected /\ Unlocked \notin Commands

\* The bytes of the first rows, of a part, and of a set of part files.
BytesUpTo[k \in 0..RowCount] == IF k = 0 THEN 0 ELSE BytesUpTo[k - 1] + Sizes[k]
Bytes(part) == BytesUpTo[part.last] - BytesUpTo[part.after]
Files == [number : Nat, after : 0..RowCount, last : 0..RowCount, by : Readers]
BytesOf[files \in SUBSET Files] ==
  IF files = {} THEN 0
  ELSE LET part == CHOOSE part \in files : TRUE
       IN Bytes(part) + BytesOf[files \ {part}]

-----------------------------------------------------------------------------
(* The manifest.                                                           *)

\* The capture's own reader reads a part until a segment is bound to a later one.
NoSegment == [count |-> 0, by |-> Original, proof |-> 0]
NoPlan == [status |-> "none", of |-> <<>>, by |-> Original]
Blank == [parts |-> <<>>, state |-> "BUILDING", retry |-> 0,
          segment |-> NoSegment, plan |-> NoPlan]
Unwritten == [Blank EXCEPT !.state = "UNWRITTEN"]
Unpinned == [of |-> <<>>, by |-> Original]

Manifest == IF published = Unwritten THEN Blank ELSE published
Captured(st) == IF st.parts = <<>> THEN 0 ELSE Last(st.parts).last
CapturedBytes(st) == BytesUpTo[Captured(st)]

\* read and _validate_reader_segment: the parts follow one another, their files are
\* there, and those after the segment's prefix were read by its reader; so the bytes of
\* the parts are those of the rows they reach.
Readable(st) ==
  /\ \A i \in DOMAIN st.parts :
       /\ st.parts[i].number = i
       /\ st.parts[i].after = IF i = 1 THEN 0 ELSE st.parts[i - 1].last
       /\ st.parts[i] \in parts
       /\ i > st.segment.count => st.parts[i].by = st.segment.by
  /\ st.segment.count <= Len(st.parts)
  /\ CapturedBytes(st) <= TOTAL_BYTES

-----------------------------------------------------------------------------
(* The commands.                                                           *)
AtRest == [pc |-> "idle", by |-> Original, proof |-> 0, out |-> Blank,
         part |-> [number |-> 0, after |-> 0, last |-> 0, by |-> Original],
         written |-> FALSE]

CaptureInit ==
  /\ parts = {} /\ published = Unwritten /\ temps = 0 /\ pinned = Unpinned
  /\ lock = Unlocked /\ proc = [c \in Commands |-> AtRest]
  /\ clock = 0 /\ losses = 0

Doing(c, pc) == proc[c].pc = pc
By(c) == proc[c].by
Out(c) == proc[c].out
disk == <<parts, published, temps, pinned>>
EndCommand(c) == proc' = [proc EXCEPT ![c] = AtRest]

\* advance_frozen_source_capture.  The manifest is read before the lock is taken, and
\* again under it; a reader the manifest does not name is refused both times.
Invoke(c, by) ==
  /\ Doing(c, "idle") /\ Readable(Manifest) /\ by = Manifest.segment.by
  /\ proc' = [proc EXCEPT ![c] = [AtRest EXCEPT !.by = by, !.pc =
       IF Manifest.state = "SOURCE_COMPLETE" THEN "finalize" ELSE "advance"]]
  /\ UNCHANGED <<disk, lock, clock, losses>>
\* A later reader arrives with the proof that it reads an accepted part alike.
Correct(c, by, proof) ==
  /\ Doing(c, "idle")
  /\ proc' = [proc EXCEPT ![c] = [AtRest EXCEPT !.by = by, !.proof = proof, !.pc = "derive"]]
  /\ UNCHANGED <<disk, lock, clock, losses>>

\* _locked does not wait.
Denied(c) ==
  /\ proc[c].pc \in {"advance", "derive", "finalize", "open"} /\ lock # Unlocked
  /\ EndCommand(c) /\ UNCHANGED <<disk, lock, clock, losses>>
\* Under the lock: the manifest is read again, and go decides on it.
Locked(c, pc, go, next, out) ==
  /\ Doing(c, pc) /\ lock = Unlocked
  /\ IF Readable(Manifest) /\ go
     THEN lock' = c /\ proc' = [proc EXCEPT ![c] = [@ EXCEPT !.pc = next, !.out = out]]
     ELSE EndCommand(c) /\ UNCHANGED lock
  /\ UNCHANGED <<disk, clock, losses>>

Due == clock >= Manifest.retry
AdvanceGoes(c) ==
  By(c) = Manifest.segment.by /\ Manifest.state = "BUILDING" /\ Due
Advance(c) ==
  Locked(c, "advance", AdvanceGoes(c),
         IF published = Unwritten THEN "create" ELSE "page", Manifest)
\* A second correction, or one after the source is complete, is refused; the same one
\* again changes nothing.
DeriveAgain(c) ==
  proc[c].proof <= Len(Manifest.parts) /\ Manifest.state = "BUILDING" /\ Due
DeriveGoes(c) ==
  /\ proc[c].proof <= Len(Manifest.parts)
  /\ Manifest.segment = NoSegment /\ Manifest.state = "BUILDING" /\ Due
Derive(c) ==
  Locked(c, "derive", DeriveGoes(c), "segment",
         [Manifest EXCEPT !.segment = [count |-> Len(Manifest.parts), by |-> By(c),
                                       proof |-> proc[c].proof]])
FinalizeAgain(c) == Manifest.state = "SOURCE_COMPLETE" /\ Due
FinalizeGoes(c) ==
  Manifest.state = "SOURCE_COMPLETE" /\ Manifest.plan.status = "none" /\ Due
Finalize(c) ==
  Locked(c, "finalize", FinalizeGoes(c), "try", [Manifest EXCEPT !.plan.status = "trying"])

-----------------------------------------------------------------------------
(* The page of rows after the cursor, as the reader and the part bounds cut it. *)
FitsPart(a, k) == k - a <= PAGE_ITEMS /\ Bytes([after |-> a, last |-> k]) <= PART_BYTES
PageEnd(a) == Max({k \in a..RowCount : FitsPart(a, k)})
\* A row larger than a part, or the whole beyond its bound.
Oversized(st) ==
  LET a == Captured(st)  k == PageEnd(a)
  IN \/ k < Min({a + PAGE_ITEMS, RowCount}) /\ Sizes[k + 1] > PART_BYTES
     \/ CapturedBytes(st) + Bytes([after |-> a, last |-> k]) > TOTAL_BYTES
Failed(st) == [st EXCEPT !.retry = clock + BACKOFF]

ReadPage(c) ==
  /\ Doing(c, "page") /\ ~Oversized(Out(c))
  /\ LET st == Out(c)
         a == Captured(st)
         k == PageEnd(a)
         part == [number |-> Len(st.parts) + 1, after |-> a, last |-> k, by |-> By(c)]
     IN proc' = [proc EXCEPT ![c] = [@ EXCEPT
          !.pc = IF k > a THEN "part" ELSE "commit",
          !.part = part,
          !.out = [st EXCEPT !.parts = IF k > a THEN Append(@, part) ELSE @,
                             !.state = IF k = RowCount THEN "SOURCE_COMPLETE" ELSE @,
                             !.retry = 0]]]
  /\ UNCHANGED <<disk, lock, clock, losses>>
\* The page is refused, or the snapshot changed, or a budget of the step ran out.
ReadFails(c) ==
  /\ Doing(c, "page")
  /\ IF Oversized(Out(c)) THEN UNCHANGED losses
     ELSE losses < MaxLosses /\ losses' = losses + 1
  /\ proc' = [proc EXCEPT ![c] = [@ EXCEPT !.pc = "reason", !.out = Failed(@)]]
  /\ UNCHANGED <<disk, lock, clock>>

\* finalize_plan: the digests and batches of every retained record.
Plan(c) ==
  /\ Doing(c, "plan") /\ Readable(Out(c))
  /\ proc' = [proc EXCEPT ![c] = [@ EXCEPT !.pc = "planned",
       !.out.plan = [status |-> "planned", of |-> Out(c).parts, by |-> By(c)]]]
  /\ UNCHANGED <<disk, lock, clock, losses>>
PlanFails(c) ==
  /\ Doing(c, "plan") /\ losses < MaxLosses
  /\ losses' = losses + 1
  /\ proc' = [proc EXCEPT ![c] = [@ EXCEPT !.pc = "unplanned", !.out.plan.status = "failed"]]
  /\ UNCHANGED <<disk, lock, clock>>

-----------------------------------------------------------------------------
(* _atomic: a temporary, then the replacement of the file.                 *)
Writing == {"create", "part", "commit", "reason", "recover", "segment", "try",
            "planned", "unplanned"}
Size(c) == IF Doing(c, "part") THEN Bytes(proc[c].part) ELSE MANIFEST
Used == BytesOf[parts] + (IF published = Unwritten THEN 0 ELSE MANIFEST) + temps
\* Whatever the directory holds counts, what no manifest names and temporaries too.
Room(c) == Used + Size(c) <= DISK_BYTES
Following(pc) == CASE pc = "create" -> "page" [] pc = "part" -> "commit"
               [] pc = "try" -> "plan" [] OTHER -> "idle"

\* The file is written: the command goes on, or gives the lock back.
Written(c) ==
  IF Following(proc[c].pc) = "idle" THEN EndCommand(c) /\ lock' = Unlocked
  ELSE /\ proc' = [proc EXCEPT ![c] = [@ EXCEPT !.pc = Following(@), !.written = FALSE]]
       /\ UNCHANGED lock
UnpublishedAsHeld(c, committed) ==
  IF Doing(c, "recover")
  THEN proc' = [proc EXCEPT ![c] = [AtRest EXCEPT !.pc = "stuck"]] /\ lock' = Unlocked
  ELSE /\ proc' = [proc EXCEPT ![c] = [@ EXCEPT !.pc = "recover", !.written = FALSE,
                                                !.out = Failed(Out(c))]]
       /\ UNCHANGED lock
\* _publication_failed: the manifest on disk, not the one in hand, gets the delay; when
\* that cannot be written either, this process never tries again.
Unpublished(c, committed) ==
  IF Doing(c, "recover")
  THEN proc' = [proc EXCEPT ![c] = [AtRest EXCEPT !.pc = "stuck"]] /\ lock' = Unlocked
  ELSE /\ proc' = [proc EXCEPT ![c] = [@ EXCEPT !.pc = "recover", !.written = FALSE,
                                                !.out = Failed(committed)]]
       /\ UNCHANGED lock
PutInPlace(c) ==
  IF Doing(c, "part") THEN parts' = parts \cup {proc[c].part} /\ UNCHANGED published
  ELSE published' = Out(c) /\ UNCHANGED parts

\* A part that an interrupted step left is taken as it is.
Retained(c) == Doing(c, "part") /\ proc[c].part \in parts
Write(c) ==
  /\ proc[c].pc \in Writing /\ ~proc[c].written
  /\ IF Retained(c) THEN Written(c)
     ELSE IF ~Room(c) THEN Unpublished(c, Manifest)
     ELSE proc' = [proc EXCEPT ![c].written = TRUE] /\ UNCHANGED lock
  /\ UNCHANGED <<disk, clock, losses>>
Replace(c) ==
  /\ proc[c].written
  /\ PutInPlace(c) /\ Written(c)
  /\ UNCHANGED <<temps, pinned, clock, losses>>
\* The write fails, before or after it took effect.
WriteFails(c) ==
  /\ proc[c].written /\ losses < MaxLosses
  /\ losses' = losses + 1
  /\ \/ UNCHANGED <<parts, published>> /\ Unpublished(c, Manifest)
     \/ PutInPlace(c) /\ Unpublished(c, Manifest')
  /\ UNCHANGED <<temps, pinned, clock>>

-----------------------------------------------------------------------------
(* pin_frozen_source_capture: a plan of exactly the retained parts is opened *)
(* under the lock, and then pinned once.                                     *)
Admissible(st) ==
  st.plan.status = "planned" /\ st.plan.of = st.parts /\ clock >= st.retry
Open(c) ==
  /\ Doing(c, "idle") /\ lock = Unlocked /\ Readable(Manifest) /\ Admissible(Manifest)
  /\ proc' = [proc EXCEPT ![c] = [AtRest EXCEPT !.pc = "pin", !.out = Manifest]]
  /\ UNCHANGED <<disk, lock, clock, losses>>
Artifact(st) == [of |-> st.plan.of, by |-> st.segment.by]
Pin(c) ==
  /\ Doing(c, "pin")
  /\ pinned' = IF pinned = Unpinned THEN Artifact(Out(c)) ELSE pinned
  /\ EndCommand(c)
  /\ UNCHANGED <<parts, published, temps, lock, clock, losses>>

-----------------------------------------------------------------------------
(* The environment.                                                        *)
StopCommand(c) ==
  /\ ~Doing(c, "idle")
  /\ IF Doing(c, "stuck") THEN UNCHANGED losses
     ELSE losses < MaxLosses /\ losses' = losses + 1
  /\ temps' = temps + IF proc[c].written THEN Size(c) ELSE 0
  /\ lock' = IF lock = c THEN Unlocked ELSE lock
  /\ EndCommand(c)
  /\ UNCHANGED <<parts, published, pinned, clock>>
LaterOn ==
  /\ clock < MaxClock /\ clock' = clock + 1
  /\ UNCHANGED <<disk, lock, proc, losses>>

CaptureNext ==
  \/ \E c \in Commands :
       \/ \E by \in Readers : Invoke(c, by)
       \/ \E by \in Corrected, proof \in 1..RowCount : Correct(c, by, proof)
       \/ Denied(c) \/ Advance(c) \/ Derive(c) \/ Finalize(c)
       \/ ReadPage(c) \/ ReadFails(c) \/ Plan(c) \/ PlanFails(c)
       \/ Write(c) \/ Replace(c) \/ WriteFails(c) \/ Open(c) \/ Pin(c) \/ StopCommand(c)
  \/ LaterOn
CaptureSpec == CaptureInit /\ [][CaptureNext]_captureVars

-----------------------------------------------------------------------------
(* Properties.                                                             *)

\* The manifest holds the rows of the snapshot from the first on, each once and in
\* order, in files that are there, and says SOURCE_COMPLETE when it holds the last.
Contiguous ==
  /\ Readable(Manifest)
  /\ \A i \in DOMAIN Manifest.parts : Manifest.parts[i].last > Manifest.parts[i].after
  /\ Manifest.state = "SOURCE_COMPLETE" => Captured(Manifest) = RowCount
  /\ Manifest.parts # <<>> /\ Captured(Manifest) = RowCount => Manifest.state = "SOURCE_COMPLETE"
\* Each row was read by the reader that was the right one for its part: the original
\* one up to the correction, the corrected one after it, never a reader since replaced.
ReadersFenced ==
  \A i \in DOMAIN Manifest.parts :
    Manifest.parts[i].by = IF i <= Manifest.segment.count THEN Original ELSE Manifest.segment.by
\* A plan and a pinned artifact are of everything captured.
PlanIsWhole ==
  /\ Manifest.plan.status # "none" => Manifest.state = "SOURCE_COMPLETE"
  /\ Manifest.plan.status = "planned" =>
       Manifest.plan.of = Manifest.parts /\ Manifest.plan.by = Manifest.segment.by
  /\ pinned # Unpinned => pinned = Artifact(Manifest) /\ Manifest.plan.status = "planned"
\* Parts without a manifest entry and abandoned temporaries count towards the bound.
DiskBounded ==
  Used + (IF \E c \in Commands : proc[c].written
          THEN Size(CHOOSE c \in Commands : proc[c].written) ELSE 0) <= DISK_BYTES
CaptureExact == Contiguous /\ ReadersFenced /\ PlanIsWhole /\ DiskBounded

\* What is captured is never captured again, one correction is bound for ever, and a
\* plan is tried once: an attempt that a crash interrupted is not started again.
CaptureAppends ==
  LET old == Manifest  new == Manifest'
  IN /\ IsPrefix(old.parts, new.parts) /\ Len(new.parts) <= Len(old.parts) + 1
     /\ old.segment # NoSegment => new.segment = old.segment
     /\ new.plan.status # old.plan.status =>
          <<old.plan.status, new.plan.status>> \in
            {<<"none", "trying">>, <<"trying", "planned">>, <<"trying", "failed">>}
\* The source is read again only after the delay of a recorded failure.
BacksOff ==
  \A c \in Commands : Doing(c, "page") /\ ~Doing(c, "page")' => clock >= Manifest.retry
\* However commands interleave, stop and fail, the capture is an exact copy of the
\* snapshot that only grows.
CaptureSound ==
  []CaptureExact /\ [][CaptureAppends /\ BacksOff]_captureVars
=============================================================================
