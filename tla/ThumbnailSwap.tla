---------------------------- MODULE ThumbnailSwap ----------------------------
(***************************************************************************)
(* ThumbnailWorker.generate of thumbnails/thumbnail-worker.ts: a set of      *)
(* sprites is rendered by FFmpeg into a staging directory, validated, and     *)
(* exchanged for the set that readers use, with a backup to go back to.  Any  *)
(* call may fail, and the process may die; a later attempt has directories of  *)
(* its own and does not look at what an earlier one left.                      *)
(***************************************************************************)
EXTENDS Naturals

CONSTANTS Wishes,       \* what a set can be of: fingerprint, version and duration
          NoWish,
          MaxSets,      \* bound on attempts
          MaxUpsets     \* bound on failing calls

VARIABLES folders,     \* the directories: destination, staging and backup
          left,     \* directories of earlier attempts: some whole set is among them
          wish,     \* what the job asks for
          attempt,   \* [at, previousMoved, stagingPromoted]
          served,   \* a whole set has been in the destination
          stranded, \* the process died, or the way back failed as well
          upsets,   \* failing calls
          attempts

swapVars == <<folders, left, wish, attempt, served, stranded, upsets, attempts>>

NoDirectory == [of |-> NoWish, pages |-> "none", manifest |-> FALSE]

\* readCompatibleThumbnailManifest checks every page, so a part is not a set.
Whole(directory) == directory.manifest /\ directory.pages = "all"

NoAttempt == [at |-> "idle", previousMoved |-> FALSE, stagingPromoted |-> FALSE]

SwapInit ==
    /\ folders = [place \in {"destination", "staging", "backup"} |-> NoDirectory]
    /\ left = FALSE
    /\ wish \in Wishes
    /\ attempt = NoAttempt
    /\ served = FALSE /\ stranded = FALSE
    /\ upsets = 0 /\ attempts = 0

Upset ==
    /\ upsets < MaxUpsets
    /\ upsets' = upsets + 1

To(at) == attempt' = [attempt EXCEPT !.at = at]

Fails == Upset /\ To("catch")

\* rm -r that fails may have removed a part.
Removals(place) ==
    {[folders EXCEPT ![place] = [@ EXCEPT !.pages = pages, !.manifest = manifest]] :
        pages \in {folders[place].pages, "part"}, manifest \in {folders[place].manifest, FALSE}}

Removed(place) == [folders EXCEPT ![place] = NoDirectory]

----------------------------------------------------------------------------
(* The job. *)

\* The source is inspected again or the generator is another version.
WishChanges ==
    /\ attempt.at = "idle" /\ wish' \in Wishes \ {wish}
    /\ UNCHANGED <<folders, left, attempt, served, stranded, upsets, attempts>>

Compatible(directory) == Whole(directory) /\ directory.of = wish

\* An attempt whose set is already there returns it.
Generate ==
    /\ attempt.at = "idle" /\ attempts < MaxSets
    /\ ~ Compatible(folders["destination"])
    /\ attempts' = attempts + 1
    /\ left' = (left \/ Whole(folders["backup"]))
    /\ folders' = [folders EXCEPT !["backup"] = NoDirectory, !["staging"] = NoDirectory]
    /\ attempt' = [NoAttempt EXCEPT !.at = "render"]
    /\ UNCHANGED <<wish, served, stranded, upsets>>

Staged(pages) ==
    folders' = [folders EXCEPT !["staging"] = [of |-> wish, pages |-> pages, manifest |-> FALSE]]

\* FFmpeg ends by itself, and the pages are cut out of its output; a page may be wrong.
GenerateSprites ==
    /\ attempt.at = "render"
    /\ \E pages \in {"all", "part"} : Staged(pages)
    /\ To("validate")
    /\ UNCHANGED <<left, wish, served, stranded, upsets, attempts>>

\* The runner settles once: too much output, no start, an exit code, a timeout or an
\* abort kills the child and rejects, whatever the child does afterwards; or the output
\* is short, or a page cannot be written.
SpritesFail ==
    /\ attempt.at = "render" /\ Fails
    /\ \E pages \in {"none", "part"} : Staged(pages)
    /\ UNCHANGED <<left, wish, served, stranded, attempts>>

\* validateGeneratedSet, and the manifest that makes it a set.
ValidateGeneratedSet ==
    /\ attempt.at = "validate"
    /\ \/ /\ folders["staging"].pages = "all"
          /\ folders' = [folders EXCEPT !["staging"] = [@ EXCEPT !.manifest = TRUE]]
          /\ To("aside") /\ UNCHANGED upsets
       \/ /\ folders["staging"].pages = "part"
          /\ To("catch") /\ UNCHANGED <<folders, upsets>>
       \/ Fails /\ UNCHANGED folders
    /\ UNCHANGED <<left, wish, served, stranded, attempts>>

----------------------------------------------------------------------------
(* The exchange. *)

MoveAside ==
    /\ attempt.at = "aside"
    /\ \/ /\ folders["destination"] = NoDirectory
          /\ To("promote") /\ UNCHANGED <<folders, upsets>>
       \/ /\ folders["destination"] # NoDirectory
          /\ folders' = [folders EXCEPT !["backup"] = folders["destination"], !["destination"] = NoDirectory]
          /\ attempt' = [attempt EXCEPT !.at = "promote", !.previousMoved = TRUE]
          /\ UNCHANGED upsets
       \/ Fails /\ UNCHANGED folders
    /\ UNCHANGED <<left, wish, served, stranded, attempts>>

PromoteStaging ==
    /\ attempt.at = "promote"
    /\ \/ /\ folders' = [folders EXCEPT !["destination"] = folders["staging"], !["staging"] = NoDirectory]
          /\ attempt' = [attempt EXCEPT !.at = "sync", !.stagingPromoted = TRUE]
          /\ UNCHANGED upsets
       \/ Fails /\ UNCHANGED folders
    /\ UNCHANGED <<left, wish, served, stranded, attempts>>

SyncParent ==
    /\ attempt.at = "sync"
    /\ \/ /\ To("clean") /\ served' = TRUE /\ stranded' = FALSE /\ UNCHANGED upsets
       \/ Fails /\ UNCHANGED <<served, stranded>>
    /\ UNCHANGED <<folders, left, wish, attempts>>

\* The removal's failure is swallowed.
RemoveBackup ==
    /\ attempt.at = "clean"
    /\ \/ folders' = Removed("backup") /\ UNCHANGED upsets
       \/ attempt.previousMoved /\ Upset /\ folders' \in Removals("backup")
    /\ attempt' = [attempt EXCEPT !.at = "finally", !.previousMoved = FALSE]
    /\ UNCHANGED <<left, wish, served, stranded, attempts>>

----------------------------------------------------------------------------
(* The way back. *)

\* A promoted set that could not be made durable goes; failing to remove it is swallowed.
TakeBack ==
    /\ attempt.at = "catch"
    /\ \/ ~ attempt.stagingPromoted /\ UNCHANGED <<folders, upsets>>
       \/ attempt.stagingPromoted /\ folders' = Removed("destination") /\ UNCHANGED upsets
       \/ attempt.stagingPromoted /\ Upset /\ folders' \in Removals("destination")
    /\ To(IF attempt.previousMoved THEN "restore" ELSE "finally")
    /\ UNCHANGED <<left, wish, served, stranded, attempts>>

\* A rename onto a directory that is still there fails.
RestorePrevious ==
    /\ attempt.at = "restore"
    /\ \/ /\ folders["destination"] = NoDirectory
          /\ folders' = [folders EXCEPT !["destination"] = folders["backup"], !["backup"] = NoDirectory]
          /\ attempt' = [attempt EXCEPT !.at = "finally", !.previousMoved = FALSE]
          /\ UNCHANGED <<upsets, stranded>>
       \/ /\ folders["destination"] # NoDirectory
          /\ To("finally") /\ stranded' = TRUE /\ UNCHANGED <<folders, upsets>>
       \/ Upset /\ To("finally") /\ stranded' = TRUE /\ UNCHANGED folders
    /\ UNCHANGED <<left, wish, served, attempts>>

MutKeepsBackup == FALSE

\* A backup that could not be put back is kept.
KeepsBackup == attempt.previousMoved

Finally ==
    /\ attempt.at = "finally"
    /\ folders' = [Removed("staging") EXCEPT !["backup"] = IF KeepsBackup THEN @ ELSE NoDirectory]
    /\ attempt' = NoAttempt
    /\ UNCHANGED <<left, wish, served, stranded, upsets, attempts>>

\* What the attempt had under its own names stays behind.
AttemptDies ==
    /\ attempt.at # "idle" /\ Upset
    /\ left' = (left \/ Whole(folders["staging"]) \/ Whole(folders["backup"]))
    /\ folders' = [folders EXCEPT !["staging"] = NoDirectory, !["backup"] = NoDirectory]
    /\ attempt' = NoAttempt
    /\ stranded' = TRUE
    /\ UNCHANGED <<wish, served, attempts>>

SwapNext ==
    \/ WishChanges \/ Generate \/ GenerateSprites \/ SpritesFail \/ ValidateGeneratedSet
    \/ MoveAside \/ PromoteStaging \/ SyncParent \/ RemoveBackup
    \/ TakeBack \/ RestorePrevious \/ Finally \/ AttemptDies

SwapSpec == SwapInit /\ [][SwapNext]_swapVars

----------------------------------------------------------------------------
\* An attempt that fails leaves readers the set they had, unless the way back fails too.
FailureKeepsTheSet ==
    attempt.at = "idle" /\ served /\ ~ stranded => Whole(folders["destination"])

\* Even then a whole set is somewhere on the disk, and no part of one is taken for a set.
NothingIsDestroyed ==
    /\ served => left \/ \E place \in DOMAIN folders : Whole(folders[place])
    /\ folders["destination"].pages = "part" => ~ Compatible(folders["destination"])

SetSurvives == FailureKeepsTheSet /\ NothingIsDestroyed
=============================================================================
