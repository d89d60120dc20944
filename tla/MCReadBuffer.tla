---------------------------- MODULE MCReadBuffer ----------------------------
\* Instance of ReadBuffer for TLC.
EXTENDS ReadBuffer

\* Requests without a body, with a short and a long one, one that exactly fills
\* the buffer, one that does not fit, and one of unknown type.
MCShape ==
  {[head |-> 1, size |-> 1, known |-> TRUE], [head |-> 2, size |-> 3, known |-> TRUE],
   [head |-> 2, size |-> 5, known |-> TRUE], [head |-> 2, size |-> 6, known |-> TRUE],
   [head |-> 1, size |-> 1, known |-> FALSE]}
=============================================================================
