-------------------------------- MODULE MCLog --------------------------------
EXTENDS Log, TLC

CONSTANTS f1, f2

MCPaths == {f1, f2}
MCUnopenable == {f2}

\* every message of up to MAX_LOG_SIZE + 4 characters over one letter:
\* shorter than, exactly, and longer than the buffer keeps
MCTexts == {[i \in 1..n |-> "a"] : n \in 0..MaxLogSize + 4}
====
