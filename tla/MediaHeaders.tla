---------------------------- MODULE MediaHeaders ----------------------------
(***************************************************************************)
(* src/ranger/plugins/vdprobe.py: the duration and the codecs of a video   *)
(* file are read from its headers, by three parsers that walk over its     *)
(* boxes (mp4), elements (mkv, webm) or chunks (webp).  A parser reads one *)
(* page, and another page only when the next header may not be in this one;*)
(* the buffer is used again, so that behind what was read it holds the     *)
(* bytes of another page.                                                  *)
(*                                                                         *)
(* A file is the sequence of its boxes, in the order of the walk.  A codec *)
(* is a name, "odd" one without a label; sizes and positions are bytes, and *)
(* a duration is a whole number.                                           *)
(* mediainfo, which is asked when a parser cannot tell, is external.       *)
(***************************************************************************)
EXTENDS Integers, Sequences, SequencesExt, FiniteSets, FiniteSetsExt

CONSTANTS PageSize,  \* W
          Pads       \* sizes of boxes between those that matter
ASSUME HeadersAssumption == PageSize \in Nat /\ PageSize >= 40 /\ Pads \subseteq 8 .. PageSize

VARIABLES media,  \* the file: [kind, boxes, length, truth, whole]; truth is observed
          parse,   \* the local variables of the parser
          told    \* its verdict
headerVars == <<media, parse, told>>

-----------------------------------------------------------------------------
(* Files *)

\* `into' a box whose content is walked over; `need' is where the value that is read ends
Box(type, size, need, value) ==
  [type |-> type, head |-> 8, size |-> size, need |-> need, value |-> value, into |-> FALSE]
Into(type) == [Box(type, 8, 8, "") EXCEPT !.into = TRUE]
Skipped(size) == Box("other", size, 8, "")

\* What the walk goes over: all of a box, or only the header of one that it enters
Advance(b) == IF b.into THEN b.head ELSE b.size
Position(boxes) ==
  LET at[i \in 1 .. Len(boxes) + 1] == IF i = 1 THEN 0 ELSE at[i - 1] + Advance(boxes[i - 1])
  IN at
SizeOf(boxes) == Position(boxes)[Len(boxes) + 1]

Known    == {"AVC", "VP9"}  \* MP4V, MKV
Track    == [type : {"vide", "soun"}, codec : {"AVC", "odd"}]
            \cup [type : {"vide"}, codec : {"VP9"}]
Tracks   == BoundedSeq(Track, 2)
Asks     == [ms |-> -1, codecs |-> << >>]  \* False: can't tell
Video(tracks) == SelectSeq(tracks, LAMBDA t : t.type = "vide")
Prefix(tracks) == IF tracks = << >> THEN << >> ELSE <<Head(tracks)>>

\* A video's verdict: the first video track counts, and the others when the duration comes last.
Truth(tracks, ms, early) ==
  LET seen == IF early THEN Prefix(Video(tracks)) ELSE Video(tracks)
      names == [i \in DOMAIN seen |-> seen[i].codec]
      twice == Len(names) = 2 /\ names[1] = names[2]
  IN IF ms = 0 \/ "odd" \in ToSet(names) THEN Asks
     ELSE [ms |-> ms, codecs |-> IF twice THEN <<names[1]>> ELSE names]

FileOf(kind, boxes, truth) ==
  [kind |-> kind, boxes |-> boxes, length |-> SizeOf(boxes), truth |-> truth, whole |-> TRUE]

Trak(t, pad) ==
  <<Into("trak"), Skipped(pad), Into("mdia"), Box("hdlr", 40, 20, t.type), Into("minf"),
    Into("stbl"), Box("stsd", 40, 24, t.codec), Skipped(pad)>>
Mp4File(lead, tracks, ms, early, pad) ==
  LET mvhd  == <<Box("mvhd", 48, 40, ms)>>
      traks == FlattenSeq([i \in DOMAIN tracks |-> Trak(tracks[i], pad)])
      inner == IF early THEN mvhd \o traks ELSE traks \o mvhd
      moov  == [Into("moov") EXCEPT !.size = 8 + SizeOf(inner)]
      big   == [Box("other", 3 * PageSize, 16, "") EXCEPT !.head = 16]  \* a 64 bit size
      open  == Box("open", 8, 8, "")      \* size 0: to the end of the file
      bad   == Box("bad", 4, 8, "")       \* smaller than its header
      ahead == CASE lead = "open" -> <<open>> [] lead = "bad" -> <<bad>>
                 [] lead = "big" -> <<big>>   [] lead = "none" -> << >>
  IN FileOf("mp4", <<Skipped(24)>> \o ahead \o <<moov>> \o inner \o <<Skipped(pad)>>,
           IF lead \in {"open", "bad"} THEN Asks ELSE Truth(tracks, ms, early))

SubEntry(t, pad, typeFirst) ==
  LET type  == Box("type", 3, 3, t.type)
      codec == Box("codec", 18, 18, t.codec)
  IN <<Into("entry")>> \o (IF typeFirst THEN <<type, codec>> ELSE <<codec, type>>)
     \o <<Skipped(pad)>>
MkvFile(scale, tracks, ms, early, pad, typeFirst) ==
  LET info   == <<Into("info"), Box("duration", 11, 11, ms), Box("scale", 7, 7, scale)>>
      first  == IF early THEN info ELSE << >>
      last   == IF early THEN << >> ELSE info
      listed == FlattenSeq([i \in DOMAIN tracks |-> SubEntry(tracks[i], pad, typeFirst)])
  IN FileOf("mkv", <<Skipped(40), Into("segment"), Skipped(pad)>> \o first
                    \o <<Into("tracks")>> \o listed \o last \o <<Box("cluster", PageSize, 12, "")>>,
           Truth(tracks, ms * scale, early))

WebpFile(pauses, pad) ==
  FileOf("webp", <<Skipped(12), Skipped(18)>>
                  \o FlattenSeq([i \in DOMAIN pauses |-> <<Box("anmf", 24 + pad, 23, pauses[i])>>]),
        LET sum == FoldSeq(+, 0, pauses)
        IN IF sum = 0 THEN Asks ELSE [ms |-> sum, codecs |-> <<"WebP">>])

Mp4Files  == {Mp4File(lead, tracks, ms, early, pad) :
                lead \in {"none", "big", "open", "bad"}, tracks \in Tracks, ms \in {0, 5},
                early \in BOOLEAN, pad \in Pads}
MkvFiles  == {MkvFile(scale, tracks, ms, early, pad, typeFirst) :
                scale \in {1, 2}, tracks \in Tracks, ms \in {0, 5}, early \in BOOLEAN,
                pad \in Pads, typeFirst \in BOOLEAN}
WebpFiles == {WebpFile(pauses, pad) :
                pauses \in BoundedSeq({0, 3, 4}, 3), pad \in Pads}

\* An mp4 that is not all there yet
Cut(m, length) == [m EXCEPT !.length = length, !.whole = FALSE]
CutFiles ==
  UNION {{Cut(m, Position(m.boxes)[i] + m.boxes[i].need - c) : i \in DOMAIN m.boxes, c \in {0, 1}} :
           m \in {Mp4File("none", tracks, 5, early, pad) :
                    tracks \in Tracks, early \in BOOLEAN, pad \in Pads}}

-----------------------------------------------------------------------------
(* The walk *)

Page(m, pos) == Max({0, Min({PageSize, m.length - pos})})

Untold == [ms |-> -2, codecs |-> << >>]
AllMedia == Mp4Files \cup MkvFiles \cup WebpFiles \cup CutFiles
HeadersInit(files) ==
  /\ media \in files
  /\ told = Untold
  /\ parse = [next |-> IF media.kind = "webp" THEN 2 ELSE 1, base |-> 0, n |-> Page(media, 0),
             ms |-> 0, scale |-> 1, codecs |-> << >>, type |-> "", codec |-> "",
             tracks |-> FALSE, end |-> 0]

Pos  == Position(media.boxes)[parse.next]
AtBox == media.boxes[parse.next]

\* The buffer, before a header is looked at: if `ahead' bytes are not in it, another page.
Peek(ahead) == IF Pos + ahead > parse.base + parse.n
                 THEN [parse EXCEPT !.base = Pos, !.n = Page(media, Pos)] ELSE parse
\* The end of the file: the new page has less.
Ended(w, least) == w.base = Pos /\ w.n < least

\* What the bytes of the buffer say
InPage(w)     == Pos + AtBox.need <= w.base + w.n
ReadName(w)   == IF InPage(w) THEN AtBox.value ELSE "odd"
ReadNumber(w) == IF InPage(w) THEN AtBox.value ELSE 999

Told(verdict) == told' = verdict /\ UNCHANGED <<media, parse>>
Goes(w)       == parse' = [w EXCEPT !.next = @ + 1] /\ UNCHANGED <<media, told>>

\* A video track's codec: one without a label is for mediainfo, and the first that has one is
\* enough once the duration is known (ALL_VIDEO is False).
CountBytes(w, name) ==
  LET names == IF name \in ToSet(w.codecs) THEN w.codecs ELSE Append(w.codecs, name)
  IN IF name \notin Known THEN Told(Asks)
     ELSE IF w.ms > 0 THEN Told([ms |-> w.ms * w.scale, codecs |-> names])
     ELSE Goes([w EXCEPT !.codecs = names])

\* The end of a walk; without a video track, `complete' says that there is none.
Conclude(w, complete) ==
  Told(IF w.ms = 0 \/ (w.codecs = << >> /\ ~complete) THEN Asks
       ELSE [ms |-> w.ms * w.scale, codecs |-> w.codecs])

HeaderAhead == 16
Mp4Ahead == 40
MoovIsOver == parse.end > 0 /\ Pos >= parse.end

\* _mp4
Mp4Box ==
  LET w == Peek(Mp4Ahead)
  IN /\ media.kind = "mp4" /\ told = Untold
     /\ IF MoovIsOver THEN Conclude(parse, TRUE)
        ELSE IF Ended(w, 40) \/ AtBox.type = "open" THEN Conclude(w, FALSE)
        ELSE CASE AtBox.type = "bad"  -> Told(Asks)
               [] AtBox.type = "moov" -> Goes([w EXCEPT !.end = Pos + AtBox.size])
               [] AtBox.type = "trak" -> Goes([w EXCEPT !.type = ""])
               [] AtBox.type = "mvhd" -> IF ReadNumber(w) = 0 THEN Told(Asks)
                                        ELSE Goes([w EXCEPT !.ms = ReadNumber(w)])
               [] AtBox.type = "hdlr" ->
                    Goes([w EXCEPT !.type = IF ReadName(w) = "vide" THEN "vide" ELSE @])
               [] AtBox.type = "stsd" /\ w.type = "vide" -> CountBytes(w, ReadName(w))
               [] OTHER -> Goes(w)

\* _ebml: the type and the codec of a track in either order
TrackSays(w) ==
  IF w.type = "vide" /\ w.codec # "" THEN CountBytes([w EXCEPT !.type = ""], w.codec) ELSE Goes(w)
EbmlElement ==
  LET w == Peek(32)
  IN /\ media.kind = "mkv" /\ told = Untold
     /\ IF Ended(w, 16) \/ AtBox.type = "cluster" THEN Conclude(w, w.tracks)
        ELSE CASE AtBox.type = "tracks"   -> Goes([w EXCEPT !.tracks = TRUE])
               [] AtBox.type = "entry"    -> Goes([w EXCEPT !.type = "", !.codec = ""])
               [] AtBox.type = "duration" -> TrackSays([w EXCEPT !.ms = ReadNumber(w)])
               [] AtBox.type = "scale"    -> TrackSays([w EXCEPT !.scale = ReadNumber(w)])
               [] AtBox.type = "type"     -> TrackSays([w EXCEPT !.type = ReadName(w)])
               [] AtBox.type = "codec"    -> TrackSays([w EXCEPT !.codec = ReadName(w)])
               [] OTHER -> Goes(w)

\* _webp, of an animated image
WebpChunk ==
  LET w == Peek(24)
  IN /\ media.kind = "webp" /\ told = Untold
     /\ IF Pos >= media.length \/ Ended(w, 24)
        THEN Told(IF parse.ms = 0 THEN Asks ELSE [ms |-> parse.ms, codecs |-> <<"WebP">>])
        ELSE Goes(IF AtBox.type = "anmf" THEN [w EXCEPT !.ms = @ + ReadNumber(w)] ELSE w)

HeadersNext == Mp4Box \/ EbmlElement \/ WebpChunk
HeadersSpec == HeadersInit(AllMedia) /\ [][HeadersNext]_headerVars

-----------------------------------------------------------------------------
(* Properties *)

\* Wherever the pages end, and in whatever order the headers come, the walk says what is in the
\* file, or leaves it to mediainfo ("False (can't tell: ask mediainfo)"): where it must, and
\* further only when no video was found up to the last bytes, or not all of an mp4 is there yet.
HeadersAreRead ==
  told # Untold => told = media.truth
                   \/ (told = Asks /\ (~media.whole \/ media.truth.codecs = << >>))
=============================================================================
