------------------------------- MODULE SdCard -------------------------------
(* The run of a G-code file from the SD card: SDSupport.cpp, the part of the *)
(* main loop that executes the lines of an open file, the reading of a line  *)
(* (SdFile::readGCodeLine), the one-block cache of SdVolume and the accesses *)
(* to the card, any of which may fail.                                       *)
(*                                                                           *)
(* A file is a sequence of characters: "x" and "y" stand for code, "_" for   *)
(* white space, the others for themselves.  Nothing in the program opens a   *)
(* file for writing (SD_open_grbltemp has no caller), so the cache is never  *)
(* dirty and a block of the cache is known by the card it was read from.     *)
EXTENDS Integers, Sequences, SequencesExt, FiniteSets

CONSTANTS Cards,        \* the cards that are put into the socket
          Formatted,    \* those that hold a file system and the file
          Texts,        \* the contents the file may have
          LineLimit,    \* LINE_BUFFER_SIZE
          ClusterSize,  \* characters in a cluster (of one block)
          Insertions    \* bound: how often a card is put in

ASSUME SdAssumption ==
    /\ Formatted \subseteq Cards
    /\ {LineLimit, ClusterSize} \subseteq Nat \ {0}
    /\ Insertions \in Nat

VARIABLES
    sd_text,      \* the file of the formatted cards
    sd_socket,    \* the card in the socket, {} if there is none
    sd_ready,     \* the card has been initialised since it was put in
    sd_inserted,  \* insertions so far
    sd_cache,     \* SdVolume::cacheBlockNumber_ and whose block it is
    sd_state,     \* SD_state
    sd_page,      \* the user interface shows the directory
    sd_open,      \* gcode_file is open
    sd_pos,       \* curPosition_
    sd_cluster,   \* curCluster_, counted along the chain of the file
    sd_main,      \* where the main program is
    sd_line,      \* the line it has read
    sd_aborted,   \* EXEC_RESET is set
    sd_executed,  \* the lines executed since the file was opened
    sd_refused    \* the last mount found no file system

sd_card == <<sd_socket, sd_ready, sd_inserted>>
sd_file == <<sd_open, sd_pos, sd_cluster>>
sd_user == <<sd_page, sd_refused>>
sd_run  == <<sd_main, sd_line, sd_aborted, sd_executed>>
sd_vars == <<sd_text, sd_card, sd_cache, sd_state, sd_file, sd_user, sd_run>>

-----------------------------------------------------------------------------
(* Blocks and the cache.                                                     *)

NoBlock == [block |-> <<"none", 0>>, card |-> {}]

\* SdVolume::cacheRawBlock, for each of the blocks bs: one whose number is in
\* the cache is not read again, whichever card it came from; one that is read
\* replaces it, and when the access fails the cache keeps what it had.  Holds
\* is the cache after the first k of them.
Cached(bs, k) == \A i \in 1 .. k : bs[i] = sd_cache.block
Holds(bs, k) == IF Cached(bs, k) THEN sd_cache ELSE [block |-> bs[k], card |-> sd_socket]

\* All of them were read; an access to one of them has failed.
CacheRead(bs) == (sd_ready \/ Cached(bs, Len(bs))) /\ sd_cache' = Holds(bs, Len(bs))
CacheFails(bs) ==
    \E k \in DOMAIN bs :
        /\ sd_ready \/ Cached(bs, k - 1)
        /\ Holds(bs, k - 1).block # bs[k]
        /\ sd_cache' = Holds(bs, k - 1)

\* SdVolume::init, for the first partition and then for the whole card: block
\* zero, in the cache, describes a file system.
Describes(cache) == cache.card \in {{c} : c \in Formatted}

-----------------------------------------------------------------------------
(* SdFile::readGCodeLine: s is its state, pos and cluster the file's.        *)

\* At the first character of a cluster the next cluster is looked up.
Entered(s) ==
    IF s.pos % ClusterSize # 0 THEN s
    ELSE [s EXCEPT !.cluster = IF s.pos = 0 THEN 1 ELSE @ + 1]

\* The character that is read; "?" after the last cluster of the file.
CharAt(s) ==
    LET i == (s.cluster - 1) * ClusterSize + (s.pos % ClusterSize) + 1
    IN  IF i \in DOMAIN sd_text THEN sd_text[i] ELSE "?"

Took(s) == [s EXCEPT !.pos = @ + 1, !.left = @ - 1]
EndsBefore(s) == [s EXCEPT !.done = TRUE, !.left = @ - 1]

TakeLfKeepsComment(s) ==
    IF s.dst # <<>> THEN [Took(s) EXCEPT !.ok = TRUE, !.done = TRUE]
    ELSE [Took(s) EXCEPT !.paren = FALSE]

TakeLf(s) ==
    IF s.dst # <<>> THEN [Took(s) EXCEPT !.ok = TRUE, !.done = TRUE]
    ELSE [Took(s) EXCEPT !.paren = FALSE, !.comment = FALSE]

TakeCr(s) ==
    IF s.dst # <<>> /\ s.cr THEN EndsBefore(s)
    ELSE [Took(s) EXCEPT !.cr = @ \/ s.dst # <<>>, !.ok = @ \/ s.dst # <<>>,
                         !.paren = FALSE, !.comment = FALSE]

TakeOther(s, c) ==
    IF s.cr THEN EndsBefore(s)
    ELSE IF s.paren \/ s.comment \/ c = "_" THEN Took(s)
    ELSE [Took(s) EXCEPT !.dst = Append(@, c)]

TakeChar(s0) ==
    LET s == Entered(s0)
        c == CharAt(s)
    IN  CASE c = "lf" -> TakeLf(s)
          [] c = "cr" -> TakeCr(s)
          [] c = "(" -> [Took(s) EXCEPT !.paren = @ \/ ~s.comment]
          [] c = ")" -> [Took(s) EXCEPT !.paren = @ /\ s.comment]
          [] c = ";" -> [Took(s) EXCEPT !.comment = @ \/ ~s.paren]
          [] c = "?" -> [s EXCEPT !.done = TRUE, !.lost = TRUE]
          [] OTHER -> TakeOther(s, c)

ToRead == LET rest == Len(sd_text) - sd_pos IN IF LineLimit > rest THEN rest ELSE LineLimit

\* The state at the end of the call when every block can be read, in a set.
ReadLine ==
    LET start == [pos |-> sd_pos, cluster |-> sd_cluster, dst |-> <<>>,
                  left |-> ToRead, ok |-> FALSE, cr |-> FALSE, paren |-> FALSE,
                  comment |-> FALSE, done |-> FALSE, lost |-> FALSE]
        scan[n \in 0 .. ToRead] ==
            IF n = 0 THEN {start}
            ELSE {IF s.done THEN s ELSE TakeChar(s) : s \in scan[n - 1]}
    IN  scan[ToRead]

\* The line was too long, or it is none of the file's.
LineFailsOnlyLost(s) == s.lost
LineFails(s) == s.lost \/ (~s.ok /\ Len(sd_text) - s.pos > 0)

\* The blocks it reads: the FAT at the start of a cluster, and the cluster.
BlocksOf(s) ==
    LET first == sd_pos \div ClusterSize
        read  == ToRead - s.left
        last  == (sd_pos + read - 1) \div ClusterSize
        Of(n) == IF n * ClusterSize < sd_pos \/ n = 0 THEN <<<<"data", n>>>>
                 ELSE <<<<"fat", 0>>, <<"data", n>>>>
    IN  IF read = 0 THEN <<>>
        ELSE FlattenSeq([k \in 1 .. (last - first + 1) |-> Of(first + k - 1)])

-----------------------------------------------------------------------------
(* The card and the user.                                                    *)

Insert(c) ==
    /\ sd_socket = {} /\ sd_inserted < Insertions
    /\ sd_socket' = {c} /\ sd_ready' = FALSE /\ sd_inserted' = sd_inserted + 1
    /\ sd_refused' = FALSE
    /\ UNCHANGED <<sd_text, sd_cache, sd_state, sd_page, sd_file, sd_run>>

PullOut ==
    /\ sd_socket # {}
    /\ sd_socket' = {} /\ sd_ready' = FALSE /\ sd_refused' = FALSE
    /\ UNCHANGED <<sd_text, sd_inserted, sd_cache, sd_state, sd_page, sd_file, sd_run>>

\* The user interface runs where the main program polls; a file that is open
\* is only offered to be cancelled.
UiRuns == sd_state # "Open" /\ ~sd_aborted /\ sd_main # "read"

\* SD_mount_card, of the page with the directory, ends with the page or not.
Mounted(ok) == sd_state' = (IF ok THEN "Mounted" ELSE "Error") /\ sd_page' = ok

\* Sd2Card::init: one of its commands is not answered in time.
CardInitFails ==
    sd_ready' = FALSE /\ sd_refused' = FALSE /\ Mounted(FALSE) /\ UNCHANGED sd_cache

\* SdVolume::init finds no file system in the block that is in the cache.
VolumeRefused(boot) ==
    ~Describes(boot) /\ sd_refused' = TRUE /\ Mounted(FALSE) /\ sd_cache' = boot

\* SdFile::openRoot follows the chain of the root in the FAT, which may fail.
\* Then the directory is listed; an entry that cannot be read only ends the
\* list (File::openNextFile).
RootOpened(boot) ==
    /\ Describes(boot) /\ sd_refused' = FALSE
    /\ \/ sd_cache' = boot /\ Mounted(FALSE)
       \/ /\ sd_cache' \in {[block |-> b, card |-> sd_socket] : b \in {<<"fat", 0>>, <<"dir", 0>>}}
          /\ Mounted(TRUE)

MountCard ==
    /\ UiRuns
    /\ \/ CardInitFails
       \/ /\ sd_socket # {} /\ sd_ready' = TRUE
          /\ LET boot == IF sd_cache.block = <<"boot", 0>> THEN sd_cache
                         ELSE [block |-> <<"boot", 0>>, card |-> sd_socket]
             IN  VolumeRefused(boot) \/ RootOpened(boot)
    /\ UNCHANGED <<sd_text, sd_socket, sd_inserted, sd_file, sd_run>>

\* SdFile::open finds the name in the directory, and openCachedEntry takes the
\* first cluster and the size from the entry.
EntryFound == CacheRead(<<<<"dir", 0>>>>) /\ Describes(sd_cache')
EntryOpened ==
    /\ sd_state' = "Open" /\ sd_open' = TRUE
    /\ sd_pos' = 0 /\ sd_cluster' = 0 /\ sd_executed' = <<>>
EntryMissing ==
    /\ CacheRead(<<<<"dir", 0>>>>) \/ CacheFails(<<<<"dir", 0>>>>)
    /\ sd_state' = "Error" /\ sd_open' = FALSE
    /\ UNCHANGED <<sd_pos, sd_cluster, sd_executed>>

\* SD_open_filename, of the file that is selected on the page.
OpenFile ==
    /\ UiRuns /\ sd_page
    /\ sd_page' = FALSE
    /\ (EntryFound /\ EntryOpened) \/ EntryMissing
    /\ UNCHANGED <<sd_text, sd_card, sd_refused, sd_main, sd_line, sd_aborted>>

-----------------------------------------------------------------------------
(* The main loop, and the interrupt that resets.                             *)

\* SD_close, called by mc_reset.
Closed ==
    /\ sd_state' = (IF sd_open THEN "Mounted" ELSE "Error")
    /\ sd_open' = FALSE

SdReset ==
    /\ ~sd_aborted
    /\ sd_aborted' = TRUE
    /\ Closed
    /\ UNCHANGED <<sd_text, sd_card, sd_cache, sd_pos, sd_cluster, sd_user,
                   sd_main, sd_line, sd_executed>>

ParseErrorKeepsFile == sd_state' = "Error" /\ UNCHANGED sd_open
ParseError == sd_state' = "Error" /\ sd_open' = FALSE

FindsFileOpen ==
    /\ sd_main = "poll" /\ sd_state = "Open"
    /\ sd_main' = "read"
    /\ UNCHANGED <<sd_text, sd_card, sd_cache, sd_state, sd_file, sd_user,
                   sd_line, sd_aborted, sd_executed>>

\* SD_readGCodeLine: a reset may have closed the file since.
ReadFails ==
    /\ sd_main = "read"
    /\ \/ ~sd_open /\ UNCHANGED sd_cache
       \/ /\ sd_open
          /\ \E s \in ReadLine :
                \/ CacheFails(BlocksOf(s))
                \/ LineFails(s) /\ CacheRead(BlocksOf(s))
    /\ ParseError
    /\ sd_main' = "poll"
    /\ UNCHANGED <<sd_text, sd_card, sd_pos, sd_cluster, sd_user, sd_line,
                   sd_aborted, sd_executed>>

ReadSucceeds ==
    /\ sd_main = "read" /\ sd_open
    /\ \E s \in ReadLine :
        /\ CacheRead(BlocksOf(s)) /\ ~LineFails(s)
        /\ sd_pos' = s.pos /\ sd_cluster' = s.cluster /\ sd_line' = s.dst
        /\ sd_main' = IF s.dst = <<>> THEN "drain" ELSE "execute"
    /\ UNCHANGED <<sd_text, sd_card, sd_state, sd_open, sd_user, sd_aborted,
                   sd_executed>>

\* gc_execute_line or system_execute_line, which may report an error; after a
\* reset it has no effect.
ExecuteLine ==
    /\ sd_main = "execute"
    /\ sd_main' = "poll" /\ sd_line' = <<>>
    /\ sd_executed' = IF sd_aborted THEN sd_executed ELSE Append(sd_executed, sd_line)
    /\ UNCHANGED <<sd_state, sd_open>> \/ ParseError
    /\ UNCHANGED <<sd_text, sd_card, sd_cache, sd_pos, sd_cluster, sd_user, sd_aborted>>

EndOfFileLeftOpen ==
    /\ sd_main = "drain"
    /\ sd_main' = "poll"
    /\ UNCHANGED <<sd_text, sd_card, sd_cache, sd_state, sd_file, sd_user,
                   sd_line, sd_aborted, sd_executed>>

\* The motions have ended, or were aborted, and the file is closed.
EndOfFile ==
    /\ sd_main = "drain"
    /\ sd_main' = "poll"
    /\ sd_state' = "Mounted" /\ sd_open' = FALSE
    /\ UNCHANGED <<sd_text, sd_card, sd_cache, sd_pos, sd_cluster, sd_user,
                   sd_line, sd_aborted, sd_executed>>

SdRestart ==
    /\ sd_main = "poll" /\ sd_aborted
    /\ sd_aborted' = FALSE
    /\ UNCHANGED <<sd_text, sd_card, sd_cache, sd_state, sd_file, sd_user,
                   sd_main, sd_line, sd_executed>>

-----------------------------------------------------------------------------
SdInit ==
    /\ sd_text \in Texts
    /\ sd_socket \in {{c} : c \in Cards} /\ sd_ready = FALSE /\ sd_inserted = 0
    /\ sd_cache = NoBlock
    /\ sd_state = "Unmounted" /\ sd_page = FALSE /\ sd_refused = FALSE
    /\ sd_open = FALSE /\ sd_pos = 0 /\ sd_cluster = 0
    /\ sd_main = "poll" /\ sd_line = <<>> /\ sd_aborted = FALSE
    /\ sd_executed = <<>>

SdMain == FindsFileOpen \/ ReadFails \/ ReadSucceeds \/ ExecuteLine \/ EndOfFile \/ SdRestart
SdUser == MountCard \/ OpenFile
SdNext == SdMain \/ SdUser \/ SdReset \/ PullOut \/ \E c \in Cards : Insert(c)

\* The main loop does not stop; the card and the user owe nothing.
SdSpec == SdInit /\ [][SdNext]_sd_vars /\ WF_sd_vars(SdMain)

-----------------------------------------------------------------------------
(* What a run of a file promises.                                            *)

\* Whether a character of a line is code or belongs to a comment.
Region(line) ==
    LET r[i \in 0 .. Len(line)] ==
        IF i = 0 THEN "code"
        ELSE LET before == r[i - 1] IN
             CASE before = "code" /\ line[i] = "(" -> "paren"
               [] before = "code" /\ line[i] = ";" -> "rest"
               [] before = "paren" /\ line[i] = ")" -> "code"
               [] OTHER -> before
    IN  r

CodeOf(line) ==
    LET r == Region(line)
        code == {i \in DOMAIN line : r[i] = "code" /\ line[i] \in {"x", "y"}}
    IN  [k \in 1 .. Cardinality(code) |->
            line[CHOOSE i \in code : Cardinality({j \in code : j <= i}) = k]]

\* The lines of a text, ended by LF, CR or the end of the file; those without
\* code are left out.
LinesOf(text) ==
    LET ends == {i \in DOMAIN text : text[i] \in {"lf", "cr"}} \cup {0, Len(text) + 1}
        From(a) == CHOOSE b \in ends : b > a /\ \A e \in ends : e > a => b <= e
        lines == [a \in ends \ {Len(text) + 1} |-> CodeOf(SubSeq(text, a + 1, From(a) - 1))]
        kept == {a \in DOMAIN lines : lines[a] # <<>>}
    IN  [k \in 1 .. Cardinality(kept) |->
            lines[CHOOSE a \in kept : Cardinality({b \in kept : b <= a}) = k]]

\* The lines that are executed are those of the file, in their order, none
\* twice and none left out, across clusters, resets and cards that come and go
\* (SDSupport.cpp:142, SdFile_grbl.cpp:617).
LinesInOrder ==
    IsPrefix(sd_executed \o IF sd_main = "execute" THEN <<sd_line>> ELSE <<>>,
             LinesOf(sd_text))

\* SD_state says Open while gcode_file is open, and only then: the main loop
\* decides by the one what it does with the other (protocol.c:178).
OpenMeansOpen == (sd_state = "Open") <=> sd_open

\* A run that is neither aborted nor in error ends after the last line.
EndsComplete ==
    [][(sd_main = "drain" /\ sd_main' = "poll" /\ ~sd_aborted)
        => sd_executed = LinesOf(sd_text)]_sd_vars

\* A file that is run is closed some day: every call advances in the file.
FileRunEnds == sd_open ~> ~sd_open

\* "Reasons for failure include not finding a valid partition, not finding a
\* valid FAT file system in the specified partition or an I/O error"
\* (SdVolume_grbl.cpp:224): a card that has one is not refused for it.
RefusedForAReason == sd_refused => ~(\E c \in Formatted : sd_socket = {c})

\* The lines of a file are executed as they are written, in order, and all of
\* them unless the run is aborted; the state and the file agree.
SdSafe == [](LinesInOrder /\ OpenMeansOpen) /\ EndsComplete
=============================================================================
