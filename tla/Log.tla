--------------------------------- MODULE Log ---------------------------------
(***************************************************************************)
(* src/src/util.c, lines 43-88: the logger.  A static FILE *fh names the   *)
(* log file sol_log_init opened, or is NULL; sol_log writes a line to      *)
(* stdout and, when fh is set, to the file; sol_log_close flushes and      *)
(* closes the file.  A message is formatted into msg[MAX_LOG_SIZE + 4] by  *)
(* vsnprintf, then "..." is copied at MAX_LOG_SIZE and a NUL after it; the *)
(* line written is that buffer read as a C string.  The timestamp written  *)
(* before the message is left out.                                         *)
(***************************************************************************)
EXTENDS Integers, Sequences

CONSTANTS
  Paths,        \* file names sol_log_init may be given (model values)
  Unopenable,   \* the ones fopen(path, "a+") fails on
  Levels,       \* log levels callers pass
  LogLevel,     \* conf->loglevel
  Texts,        \* messages as vsnprintf formats them, sequences of chars
  MaxLogSize,   \* MAX_LOG_SIZE
  NUL,          \* the byte '\0'
  Garbage,      \* a byte of msg[] nobody wrote
  NoFile        \* fh = NULL

ASSUME Unopenable \subseteq Paths /\ MaxLogSize \in Nat \ {0}

VARIABLES
  fh,     \* NoFile, or the stream sol_log_init opened: its path and whether it is still open
  last    \* what the last sol_log call wrote: the message, the line, and the file it went to

vars == <<fh, last>>

Stream == [path : Paths, open : BOOLEAN]
Line == [msg : Texts, stdout : Seq(STRING), file : Stream \cup {NoFile}]

-----------------------------------------------------------------------------
(* sol_log's buffer (lines 66-77), indexed 0..MAX_LOG_SIZE+3 as in C.      *)

\* vsnprintf(msg, sizeof(msg), ...): at most sizeof(msg) - 1 characters and a NUL
Vsnprintf(text) ==
  LET n == IF Len(text) < MaxLogSize + 3 THEN Len(text) ELSE MaxLogSize + 3
  IN  [i \in 0..MaxLogSize + 3 |->
         IF i < n THEN text[i + 1] ELSE IF i = n THEN NUL ELSE Garbage]

\* memcpy(msg + MAX_LOG_SIZE, "...", 3); msg[MAX_LOG_SIZE + 3] = '\0'
Dots(buf) ==
  [i \in DOMAIN buf |->
     IF i \in MaxLogSize..MaxLogSize + 2 THEN "."
     ELSE IF i = MaxLogSize + 3 THEN NUL ELSE buf[i]]

\* the buffer read by "%s": the characters before the first NUL
RECURSIVE CStringFrom(_, _)
CStringFrom(buf, i) ==
  IF buf[i] = NUL THEN <<>> ELSE <<buf[i]>> \o CStringFrom(buf, i + 1)
CString(buf) == CStringFrom(buf, 0)

FormatLine(text) == CString(Dots(Vsnprintf(text)))

-----------------------------------------------------------------------------
(* The three functions.                                                    *)

\* sol_log_init (lines 45-51): a NULL path returns at once; otherwise fh
\* takes fopen's result, NULL when it fails, whatever fh held before
SolLogInit ==
  \E path \in Paths \cup {NoFile} :
    /\ path # NoFile
    /\ fh' = IF path \in Unopenable THEN NoFile ELSE [path |-> path, open |-> TRUE]
    /\ UNCHANGED last

\* sol_log_close (lines 53-58): flushes and closes the stream and leaves fh
\* pointing to it, so a later sol_log writes to a closed FILE
SolLogClose ==
  /\ fh # NoFile
  /\ fh' = [fh EXCEPT !.open = FALSE]
  /\ UNCHANGED last

\* sol_log (lines 60-88): below conf->loglevel nothing is written
SolLog ==
  \E level \in Levels, text \in Texts :
    /\ level >= LogLevel
    /\ last' = [msg |-> text, stdout |-> FormatLine(text), file |-> fh]
    /\ UNCHANGED fh

Init ==
  /\ fh = NoFile
  /\ last = [msg |-> CHOOSE t \in Texts : TRUE, stdout |-> <<>>, file |-> NoFile]

Next == SolLogInit \/ SolLogClose \/ SolLog

Spec == Init /\ [][Next]_vars

-----------------------------------------------------------------------------
TypeOK ==
  /\ fh \in Stream \cup {NoFile}
  /\ last \in Line

\* The comment at line 74 and the buffer of MAX_LOG_SIZE + 4: sol_log truncates a message too long for
\* MAX_LOG_SIZE and marks it with "..."; a message that fits is written as
\* it is.
LogLineFaithful ==
  last.stdout # <<>> =>
    last.stdout = IF Len(last.msg) <= MaxLogSize THEN last.msg
                  ELSE SubSeq(last.msg, 1, MaxLogSize) \o <<".", ".", ".">>

====
