----------------------------- MODULE DiscImage -----------------------------
(***************************************************************************)
(* A disc image (src/crates/cdrom/src): the table of contents made from a  *)
(* cue sheet or from a CHD file's metadata, and the reading of a sector of *)
(* the disc through the positions that the readers remember.               *)
(*                                                                         *)
(* A sector is known by where it is in the image.  Files are measured in   *)
(* halves of a sector, so that a read that fails may end within one.       *)
(***************************************************************************)
EXTENDS Integers, Sequences

CONSTANTS FRAMES_PER_SECOND, SECONDS_PER_MINUTE, MAX_MINUTES,
          PREGAP,       \* two seconds: of every data track and at the end
          HUNK_SECTORS, \* sectors in a hunk of a CHD file
          Images        \* cue sheets, parsed, and the metadata of CHD files

VARIABLES image,
          sheet,            \* CueSheet: the tracks in the order of their numbers
          position, actual, \* CdRomFile::position, and the file's own
          current_hunk_number,
          buffered,         \* the hunk that decompressed_buffer holds
          doubtful,         \* files whose last seek or load was before a failed one
          delivered         \* the last sector read

discVars == <<image, sheet, position, actual, current_hunk_number, buffered, doubtful, delivered>>

(***************************************************************************)
(* CdTime: <<minutes, seconds, frames>>.                                   *)
(***************************************************************************)
Times == (0 .. MAX_MINUTES - 1) \X (0 .. SECONDS_PER_MINUTE - 1) \X (0 .. FRAMES_PER_SECOND - 1)
MAX_SECTORS == MAX_MINUTES * SECONDS_PER_MINUTE * FRAMES_PER_SECOND
ZERO == <<0, 0, 0>>
Carry(sum, base) == IF sum >= base THEN 1 ELSE 0
Borrow(a, b) == IF a < b THEN 1 ELSE 0

Add(t, u) ==
    LET f == t[3] + u[3]
        s == t[2] + u[2] + Carry(f, FRAMES_PER_SECOND)
        m == t[1] + u[1] + Carry(s, SECONDS_PER_MINUTE)
    IN  <<m % MAX_MINUTES, s % SECONDS_PER_MINUTE, f % FRAMES_PER_SECOND>>

Sub(t, u) ==
    LET f == u[3]
        s == u[2] + Borrow(t[3], f)
        m == u[1] + Borrow(t[2], s)
    IN  <<(t[1] - m) % MAX_MINUTES, (t[2] - s) % SECONDS_PER_MINUTE,
          (t[3] - f) % FRAMES_PER_SECOND>>

Before(t, u) ==
    \/ t[1] < u[1]
    \/ t[1] = u[1] /\ t[2] < u[2]
    \/ t[1] = u[1] /\ t[2] = u[2] /\ t[3] < u[3]

ToSectorNumber(t) == (SECONDS_PER_MINUTE * t[1] + t[2]) * FRAMES_PER_SECOND + t[3]

FromSectorNumber(n) ==
    <<n \div (FRAMES_PER_SECOND * SECONDS_PER_MINUTE),
      (n \div FRAMES_PER_SECOND) % SECONDS_PER_MINUTE, n % FRAMES_PER_SECOND>>

(* Sequences one behind the other (FlattenSeq as a recursive function).     *)
Joined(parts) ==
    LET upTo[k \in 0 .. Len(parts)] == IF k = 0 THEN <<>> ELSE upTo[k - 1] \o parts[k]
    IN  upTo[Len(parts)]

(***************************************************************************)
(* The tracks: first where each is in the image, [type, pregap, length],   *)
(* then, one after the other, where on the disc.                           *)
(***************************************************************************)
TimeInFile(track) == IF track.pause_start = {} THEN track.track_start
                     ELSE CHOOSE t \in track.pause_start : TRUE

PauseLen(track) == IF track.pause_start = {} THEN ZERO
                   ELSE Sub(track.track_start, TimeInFile(track))

\* Mutant: what comes before the next track's INDEX 01 belongs to this one.
DataEndTimeAtIndex(file, i) ==
    IF i = Len(file.tracks) THEN FromSectorNumber(file.sectors)
    ELSE file.tracks[i + 1].track_start

DataEndTime(file, i) ==
    IF i = Len(file.tracks) THEN FromSectorNumber(file.sectors)
    ELSE TimeInFile(file.tracks[i + 1])

(* A disc's tracks by the numbers of their files and in their files.        *)
Numbers(files) ==
    Joined([f \in 1 .. Len(files) |-> [i \in 1 .. Len(files[f].tracks) |-> <<f, i>>]])

TrackOfCue(files, f, i) ==
    LET track == files[f].tracks[i]
    IN  [type |-> track.type, file |-> f,
         first |-> ToSectorNumber(TimeInFile(track)),
         pregap_len |-> IF track.type = "Data" THEN PREGAP ELSE track.pregap_len,
         length |-> Add(PauseLen(track), Sub(DataEndTime(files[f], i), track.track_start))]

CueTracks(files) ==
    LET numbers == Numbers(files)
    IN  [k \in 1 .. Len(numbers) |-> TrackOfCue(files, numbers[k][1], numbers[k][2])]

\* Every track of a CHD file begins at a multiple of four frames.
Padded(frames) == IF frames % 4 # 0 THEN (frames - (frames % 4)) + 4 ELSE frames

FrameBehind(tracks) ==
    LET behind[k \in 0 .. Len(tracks)] ==
            IF k = 0 THEN 0 ELSE Padded(behind[k - 1] + tracks[k].frames)
    IN  behind

ChdTracks(tracks) ==
    [k \in 1 .. Len(tracks) |->
        [type |-> tracks[k].type, file |-> 1, first |-> FrameBehind(tracks)[k - 1],
         pregap_len |-> IF tracks[k].type = "Data" THEN PREGAP
                        ELSE FromSectorNumber(tracks[k].pregap_frames),
         length |-> FromSectorNumber(tracks[k].frames)]]

PostgapLen(track) == IF track.type = "Data" THEN PREGAP ELSE ZERO
PaddedLen(track) == Add(Add(track.pregap_len, track.length), PostgapLen(track))

TimeBehind(tracks) ==
    LET behind[k \in 0 .. Len(tracks)] ==
            IF k = 0 THEN ZERO ELSE Add(behind[k - 1], PaddedLen(tracks[k]))
    IN  behind

Placed(tracks) ==
    [k \in 1 .. Len(tracks) |->
        [type |-> tracks[k].type, file |-> tracks[k].file, first |-> tracks[k].first,
         pregap_len |-> tracks[k].pregap_len, postgap_len |-> PostgapLen(tracks[k]),
         start_time |-> TimeBehind(tracks)[k - 1], end_time |-> TimeBehind(tracks)[k]]]

\* The last track has a postgap in any case.
Finalized(tracks) ==
    [k \in 1 .. Len(tracks) |->
        IF k = Len(tracks) /\ tracks[k].postgap_len = ZERO
        THEN [tracks[k] EXCEPT !.postgap_len = PREGAP, !.end_time = Add(@, PREGAP)]
        ELSE tracks[k]]

TracksInImage(i) == IF i.format = "CueBin" THEN CueTracks(i.files) ELSE ChdTracks(i.tracks)
Tracks(i) == Finalized(Placed(TracksInImage(i)))

\* Times at the end of the last track are still its own.
TracksAt(time) ==
    LET n == CHOOSE n \in 1 .. Len(sheet) :
                 /\ ~Before(time, sheet[n].start_time)
                 /\ n = Len(sheet) \/ Before(time, sheet[n + 1].start_time)
    IN  IF n = Len(sheet) /\ Before(sheet[n].end_time, time) THEN {} ELSE {sheet[n]}

-----------------------------------------------------------------------------
(***************************************************************************)
(* What a disc looks like, sector by sector.                               *)
(***************************************************************************)
Error == [at |-> "error"]
NothingRead == [at |-> "nothing"]
Gap(type) == [at |-> IF type = "Data" THEN "fake" ELSE "silence"]
Sector(f, n) == [at |-> "image", file |-> f, sector |-> n]

Gaps(type, n) == [k \in 1 .. n |-> Gap(type)]
Sectors(f, first, end) == [k \in 1 .. end - first |-> Sector(f, first + k - 1)]

Whole(type, pregap, sectors) ==
    IF type = "Data"
    THEN Gaps(type, ToSectorNumber(PREGAP)) \o sectors \o Gaps(type, ToSectorNumber(PREGAP))
    ELSE Gaps(type, pregap) \o sectors

\* A cue sheet's files, each cut where its tracks begin: at INDEX 00, or 01.
Begin(file, i) ==
    IF i > Len(file.tracks) THEN file.sectors ELSE ToSectorNumber(TimeInFile(file.tracks[i]))

CuePart(files, f, i) ==
    LET track == files[f].tracks[i]
    IN  Whole(track.type, ToSectorNumber(track.pregap_len),
              Sectors(f, Begin(files[f], i), Begin(files[f], i + 1)))

CueParts(files) ==
    LET numbers == Numbers(files)
    IN  [k \in 1 .. Len(numbers) |-> CuePart(files, numbers[k][1], numbers[k][2])]

\* Each track of a CHD file takes units of four frames.
Units(tracks) ==
    LET behind[k \in 0 .. Len(tracks)] ==
            IF k = 0 THEN 0 ELSE behind[k - 1] + ((tracks[k].frames + 3) \div 4)
    IN  behind

ChdParts(tracks) ==
    [k \in 1 .. Len(tracks) |->
        LET first == 4 * Units(tracks)[k - 1]
        IN  Whole(tracks[k].type, tracks[k].pregap_frames,
                  Sectors(1, first, first + tracks[k].frames))]

Parts(i) == IF i.format = "CueBin" THEN CueParts(i.files) ELSE ChdParts(i.tracks)
Layout(i) == Joined(Parts(i))

(* What the readers take for granted.  The times of a cue sheet are times,  *)
(* its tracks are in the order in which they are in their file, and within  *)
(* it.  A track, with its gaps, is not empty, or find_track_by_time could   *)
(* find either of two that begin at the same time.  The tracks fit on a     *)
(* disc, where from_sector_number would fail, or a sum begin anew at zero,  *)
(* if they did not.                                                         *)
CueSheets ==
    Seq([sectors : 0 .. MAX_SECTORS - 1,
         tracks : Seq([type : {"Data", "Audio"}, pregap_len : Times,
                       pause_start : SUBSET Times, track_start : Times])])
ChdMetadata == Seq([type : {"Data", "Audio"}, frames : Nat, pregap_frames : Nat])

InOrder(file) ==
    \A i \in 1 .. Len(file.tracks) :
        LET track == file.tracks[i]
        IN  /\ \A s, t \in track.pause_start : s = t
            /\ ToSectorNumber(TimeInFile(track)) <= ToSectorNumber(track.track_start)
            /\ ToSectorNumber(track.track_start) <= Begin(file, i + 1)

FitsOnDisc(i) ==
    /\ \/ /\ i.format = "CueBin" /\ i.files \in CueSheets
          /\ \A f \in 1 .. Len(i.files) : InOrder(i.files[f])
       \/ i.format = "Chd" /\ i.tracks \in ChdMetadata
    /\ Parts(i) # <<>> /\ \A k \in 1 .. Len(Parts(i)) : Parts(i)[k] # <<>>
    /\ Len(Layout(i)) + ToSectorNumber(PREGAP) < MAX_SECTORS

DiscAssumption ==
    /\ {FRAMES_PER_SECOND, SECONDS_PER_MINUTE, MAX_MINUTES, HUNK_SECTORS} \subseteq Nat \ {0}
    /\ PREGAP \in Times /\ PREGAP # ZERO
    /\ \A i \in Images : FitsOnDisc(i)
ASSUME DiscAssumed == DiscAssumption

-----------------------------------------------------------------------------
(***************************************************************************)
(* Reading.                                                                *)
(***************************************************************************)
FileNumbers == 1 .. (IF image.format = "CueBin" THEN Len(image.files) ELSE 1)
Nowhere == -1  \* u32::MAX; and a hunk that was read in part

DiscInit ==
    /\ image \in Images
    /\ sheet = Tracks(image)
    /\ position = [f \in FileNumbers |-> 0] /\ actual = position
    /\ current_hunk_number = Nowhere /\ buffered = Nowhere
    /\ doubtful = {}
    /\ delivered = [time |-> ZERO, what |-> NothingRead, sure |-> FALSE]

Length(track) == ToSectorNumber(track.end_time)
                 - ToSectorNumber(Add(Add(track.start_time, track.pregap_len), track.postgap_len))

\* The checksum of a sector of a data track holds, whichever sector it is.
ValidEdc(what) ==
    \E n \in DOMAIN sheet :
        /\ what.at = "image" /\ sheet[n].type = "Data" /\ sheet[n].file = what.file
        /\ what.sector \in sheet[n].first .. sheet[n].first + Length(sheet[n]) - 1

Deliver(time, track, what) ==
    delivered' = [time |-> time, sure |-> track.file \notin doubtful',
                  what |-> IF track.type = "Data" /\ ~ValidEdc(what) THEN Error ELSE what]

Fail(time, track) ==
    /\ doubtful' = doubtful \cup {track.file}
    /\ delivered' = [time |-> time, sure |-> TRUE, what |-> Error]

(* CdBinFiles::read_sector: it seeks only if the file is not already there, *)
(* as far as it knows, and a read that fails leaves the file anywhere in   *)
(* the sector.                                                             *)
ReadCueBin(time, track, n) ==
    LET f == track.file
        address == 2 * (track.first + n)
        seeks == position[f] # address
        from == IF seeks THEN address ELSE actual[f]
        end == 2 * image.files[f].sectors
    IN  /\ \/ /\ from + 2 <= end
              /\ position' = [position EXCEPT ![f] = address + 2]
              /\ actual' = [actual EXCEPT ![f] = from + 2]
              /\ doubtful' = IF seeks THEN doubtful \ {f} ELSE doubtful
              /\ Deliver(time, track, IF from % 2 = 0 THEN Sector(f, from \div 2) ELSE Error)
           \/ /\ \E ahead \in {0, 1} :
                     actual' = [actual EXCEPT ![f] = IF from + ahead <= end THEN from + ahead
                                                     ELSE end]
              /\ UNCHANGED position
              /\ Fail(time, track)
        /\ UNCHANGED <<current_hunk_number, buffered>>

(* ChdFile::read_sector: a hunk is loaded only if it is not the current     *)
(* one, and a load that fails leaves the buffer in disorder.               *)
ReadChd(time, track, n) ==
    LET sector == track.first + n
        hunk == sector \div HUNK_SECTORS
    IN  /\ \/ /\ current_hunk_number' = hunk
              /\ buffered' = IF current_hunk_number = hunk THEN buffered ELSE hunk
              /\ doubtful' = IF current_hunk_number = hunk THEN doubtful ELSE {}
              /\ Deliver(time, track, IF buffered' = hunk THEN Sector(1, sector) ELSE Error)
           \/ /\ current_hunk_number # hunk
              /\ buffered' = Nowhere
              /\ UNCHANGED current_hunk_number
              /\ Fail(time, track)
        /\ UNCHANGED <<position, actual>>

(* CdRom::read_sector.                                                     *)
ReadOfTrack(time, track) ==
    LET relative == Sub(time, track.start_time)
        end == Sub(Sub(track.end_time, track.postgap_len), track.start_time)
        n == ToSectorNumber(Sub(relative, track.pregap_len))
    IN  IF Before(relative, track.pregap_len) \/ ~Before(relative, end)
        THEN /\ delivered' = [time |-> time, sure |-> TRUE, what |-> Gap(track.type)]
             /\ UNCHANGED <<position, actual, current_hunk_number, buffered, doubtful>>
        ELSE IF image.format = "CueBin" THEN ReadCueBin(time, track, n) ELSE ReadChd(time, track, n)

ReadSector(time) ==
    /\ \E track \in TracksAt(time) : ReadOfTrack(time, track)
    /\ UNCHANGED <<image, sheet>>

DiscNext == \E time \in Times : ReadSector(time)
DiscSpec == DiscInit /\ [][DiscNext]_discVars

-----------------------------------------------------------------------------
(* Every time of the disc reads as the sector of the image that is there    *)
(* when all tracks, with their gaps, are laid one behind the other; beyond  *)
(* them there is the gap of the last track.  Whatever has been read before, *)
(* the position or hunk remembered from it does not matter, unless a read   *)
(* failed and there was neither a seek nor a load since.                   *)
AsLaidOut ==
    (delivered.sure /\ delivered.what \notin {Error, NothingRead}) =>
        LET layout == Layout(image)
            n == ToSectorNumber(delivered.time) + 1
        IN  delivered.what = IF n <= Len(layout) THEN layout[n] ELSE Gap(sheet[Len(sheet)].type)
=============================================================================
