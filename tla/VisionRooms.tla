----------------------------- MODULE VisionRooms -----------------------------
(***************************************************************************)
(* Captures of one room: an upload finds or inserts the row of the room,   *)
(* recognizes what the image shows, compares the counts with the baseline  *)
(* it reads, writes two image files and only then commits its scan.  An    *)
(* administrator accepts a scan as the baseline of the room.  Uploads and  *)
(* acceptances overlap, read without locks, and may break off anywhere.    *)
(***************************************************************************)
EXTENDS Naturals, Sequences

CONSTANTS
  Scans,        \* ids of scans, one for each upload
  Acceptances,  \* requests accepting a baseline
  Counts,       \* what a detector may count
  None,
  MaxAccepted   \* bound: acceptances committed

ASSUME VisionAssumption == None \notin Scans \cup Counts /\ MaxAccepted \in Nat

VARIABLES
  captureRoom,  \* whether the row of the room is committed
  images,       \* scans whose image files are complete
  scan,         \* per scan: its row
  roomBaseline, \* the row of the room's baseline
  upload,       \* per scan: what its request holds
  acceptance,   \* per acceptance: what its request loaded
  accepted      \* the acceptances in commit order: the scan of each, and how
                \* many there were when its request loaded the baseline

visionVars == <<captureRoom, images, scan, roomBaseline, upload, acceptance, accepted>>
baselineSide == <<acceptance, accepted>>

NoScan == [status |-> None, counts |-> None, expected |-> None]
NoBaseline == [source |-> None, counts |-> None]
NotUploading == [step |-> "idle", creates |-> FALSE, counts |-> None, expected |-> None]
Unasked == [scan |-> None, loaded |-> NoBaseline, since |-> 0]

VisionInit ==
  /\ captureRoom = FALSE
  /\ images = {}
  /\ scan = [s \in Scans |-> NoScan]
  /\ roomBaseline = NoBaseline
  /\ upload = [s \in Scans |-> NotUploading]
  /\ acceptance = [a \in Acceptances |-> Unasked]
  /\ accepted = <<>>

Stored(s) == scan[s] # NoScan

-----------------------------------------------------------------------------
(* Uploads. *)

FindRoom(s) ==
  /\ upload[s].step = "idle" /\ ~ Stored(s) /\ s \notin images
  /\ upload' = [upload EXCEPT ![s].step = IF captureRoom THEN "room" ELSE "missing"]
  /\ UNCHANGED <<captureRoom, images, scan, roomBaseline, baselineSide>>

\* The insert waits for another insert that is not committed yet.
InsertRoom(s) ==
  /\ upload[s].step = "missing"
  /\ ~ captureRoom /\ \A t \in Scans : ~ upload[t].creates
  /\ upload' = [upload EXCEPT ![s].step = "room", ![s].creates = TRUE]
  /\ UNCHANGED <<captureRoom, images, scan, roomBaseline, baselineSide>>

Recognize(s) ==
  /\ upload[s].step = "room"
  /\ \E c \in Counts :
       upload' = [upload EXCEPT ![s].step = "compared", ![s].counts = c,
                                ![s].expected = roomBaseline.counts]
  /\ UNCHANGED <<captureRoom, images, scan, roomBaseline, baselineSide>>

SaveImages(s) ==
  /\ upload[s].step = "compared"
  /\ images' = images \cup {s}
  /\ upload' = [upload EXCEPT ![s].step = "saved"]
  /\ UNCHANGED <<captureRoom, scan, roomBaseline, baselineSide>>

\* compare_counts, as far as the status tells.
Judged(expected, counts) ==
  IF expected = None THEN "NOT_CHECKED" ELSE IF expected = counts THEN "OK" ELSE "WARNING"

\* Mutant: the row is committed before its files are written.
BeforeFiles(u) == u.step \in {"compared", "saved"}

Complete(u) == u.step = "saved"

CommitScan(s) ==
  LET u == upload[s]
  IN  /\ Complete(u)
      /\ scan' = [scan EXCEPT ![s] =
           [status |-> Judged(u.expected, u.counts), counts |-> u.counts,
            expected |-> u.expected]]
      /\ captureRoom' = TRUE
      /\ upload' = [upload EXCEPT ![s] = NotUploading]
      /\ UNCHANGED <<images, roomBaseline, baselineSide>>

\* The room was inserted first by another upload, the detector or the disk
\* fails, or the server stops: the transaction is undone, files stay.
BreakOff(s) ==
  /\ upload[s].step # "idle"
  /\ upload' = [upload EXCEPT ![s] = NotUploading]
  /\ UNCHANGED <<captureRoom, images, scan, roomBaseline, baselineSide>>

-----------------------------------------------------------------------------
(* Acceptances. *)

LoadBaseline(a) ==
  /\ acceptance[a].scan = None
  /\ Len(accepted) < MaxAccepted
  /\ \E s \in Scans :
       /\ Stored(s)
       /\ acceptance' = [acceptance EXCEPT ![a] =
            [scan |-> s, loaded |-> roomBaseline, since |-> Len(accepted)]]
  /\ UNCHANGED <<captureRoom, images, scan, roomBaseline, upload, accepted>>

\* Mutant: a baseline that exists keeps its counts.
SourceOnly(t, now) ==
  [now EXCEPT !.source = t.scan,
              !.counts = IF t.loaded.source = None THEN scan[t.scan].counts ELSE @]

\* The row after the commit: only what differs from the loaded row is written.
Rebased(t, now) ==
  [source |-> IF t.scan # t.loaded.source THEN t.scan ELSE now.source,
   counts |-> IF scan[t.scan].counts # t.loaded.counts THEN scan[t.scan].counts
              ELSE now.counts]

CommitAcceptance(a) ==
  LET t == acceptance[a]
  IN  /\ t.scan # None
      /\ Len(accepted) < MaxAccepted
      /\ t.loaded.source = None => roomBaseline = NoBaseline
      /\ roomBaseline' = Rebased(t, roomBaseline)
      /\ scan' = [scan EXCEPT ![t.scan].status = "OK", ![t.scan].expected = scan[t.scan].counts]
      /\ acceptance' = [acceptance EXCEPT ![a] = Unasked]
      /\ accepted' = Append(accepted, [scan |-> t.scan, since |-> t.since])
      /\ UNCHANGED <<captureRoom, images, upload>>

\* The first baseline of the room was inserted by another request, or the
\* server stops.
LoseAcceptance(a) ==
  /\ acceptance[a].scan # None
  /\ acceptance' = [acceptance EXCEPT ![a] = Unasked]
  /\ UNCHANGED <<captureRoom, images, scan, roomBaseline, upload, accepted>>

VisionNext ==
  \/ \E s \in Scans : \/ FindRoom(s) \/ InsertRoom(s) \/ Recognize(s)
                      \/ SaveImages(s) \/ CommitScan(s) \/ BreakOff(s)
  \/ \E a \in Acceptances : LoadBaseline(a) \/ CommitAcceptance(a) \/ LoseAcceptance(a)

VisionSpec == VisionInit /\ [][VisionNext]_visionVars

-----------------------------------------------------------------------------
(* Properties *)

UploadRow ==
  [step : {"idle", "missing", "room", "compared", "saved"}, creates : BOOLEAN,
   counts : Counts \cup {None}, expected : Counts \cup {None}]
BaselineRow ==
  [source : Scans \cup {None}, counts : Counts \cup {None}]

VisionTypeOK ==
  /\ captureRoom \in BOOLEAN
  /\ images \subseteq Scans
  /\ scan \in [Scans -> [status : {"NOT_CHECKED", "OK", "WARNING", None},
                         counts : Counts \cup {None}, expected : Counts \cup {None}]]
  /\ roomBaseline \in BaselineRow
  /\ upload \in [Scans -> UploadRow]
  /\ acceptance \in
       [Acceptances -> [scan : Scans \cup {None}, loaded : BaselineRow, since : Nat]]
  /\ accepted \in Seq([scan : Scans, since : Nat])
  /\ \A a \in Acceptances : acceptance[a].since \in 0..Len(accepted)

\* Wherever an upload breaks off, a stored scan has its images and its room
\* (vision/service.py:50-96); files without a scan may remain.
ScansHaveImages == \A s \in Scans : Stored(s) => s \in images /\ captureRoom

Committed == 1..Len(accepted)

\* The acceptances after j are of requests that had loaded the baseline before
\* j was committed.
Unopposed(j) == \A k \in Committed : j < k => accepted[k].since < j

\* Two acceptances that overlap may leave the source of one beside the counts
\* of the other.  However they overlap, source and counts are each of an
\* acceptance that no later one had seen, so an acceptance by itself always has
\* both its way; every accepted scan is OK (vision/service.py:117-137).
BaselineStands ==
  /\ accepted = <<>> => roomBaseline = NoBaseline
  /\ accepted # <<>> =>
       /\ \E j \in Committed :
            roomBaseline.source = accepted[j].scan /\ Unopposed(j)
       /\ \E j \in Committed :
            roomBaseline.counts = scan[accepted[j].scan].counts /\ Unopposed(j)
  /\ \A j \in Committed : scan[accepted[j].scan].status = "OK"

\* What is stored, the images and the room; only new scans are being uploaded.
UploadsComplete ==
  /\ \A s \in Scans :
       /\ Stored(s) => s \in images /\ captureRoom /\ scan[s].counts \in Counts
       /\ upload[s].step # "idle" => ~ Stored(s)
       /\ upload[s].step \in {"compared", "saved"} => upload[s].counts \in Counts
       /\ upload[s].step = "saved" => s \in images
  /\ \A a \in Acceptances : acceptance[a].scan # None => Stored(acceptance[a].scan)

\* What every step keeps: a request that loaded another source, or other
\* counts, than there are now did so before the acceptance they are of.
SourceHeld ==
  \E j \in Committed :
    /\ roomBaseline.source = accepted[j].scan /\ Unopposed(j)
    /\ \A a \in Acceptances : acceptance[a].scan # None =>
         acceptance[a].loaded.source = roomBaseline.source \/ acceptance[a].since < j

CountsHeld ==
  \E j \in Committed :
    /\ roomBaseline.counts = scan[accepted[j].scan].counts /\ Unopposed(j)
    /\ \A a \in Acceptances : acceptance[a].scan # None =>
         acceptance[a].loaded.counts = roomBaseline.counts \/ acceptance[a].since < j

BaselineHeld ==
  /\ accepted = <<>> =>
       /\ roomBaseline = NoBaseline
       /\ \A a \in Acceptances : acceptance[a].loaded = NoBaseline
  /\ accepted # <<>> => SourceHeld /\ CountsHeld
  /\ \A j \in Committed : Stored(accepted[j].scan) /\ scan[accepted[j].scan].status = "OK"

VisionInv == VisionTypeOK /\ UploadsComplete /\ BaselineHeld

=============================================================================
