------------------------------ MODULE Timeval ------------------------------
(***************************************************************************)
(* The time arithmetic of util.c that the modes print RTTs with, and the  *)
(* conversions between struct timeval (microseconds) and struct timespec  *)
(* (nanoseconds) that mt_wait and probe_match make on the way.            *)
(* Values are records [tv_sec, tv_usec] and [tv_sec, tv_nsec] of integers; *)
(* a printed "%d.%03d" string is the pair of its two numbers.             *)
(***************************************************************************)
EXTENDS Integers

\* timeval_diff: a - b field by field, borrowing a second when the
\* microseconds go negative.
timeval_diff(a, b) ==
  LET sec  == a.tv_sec - b.tv_sec
      usec == a.tv_usec - b.tv_usec
  IN  IF usec < 0 THEN [tv_sec |-> sec - 1, tv_usec |-> usec + 1000000]
                  ELSE [tv_sec |-> sec, tv_usec |-> usec]

\* The uint32_t usec of timeval_to_str, printed as "%d.%03d" of usec / 1000
\* and usec % 1000.  A negative total is taken modulo 2^32
\* (2^32 = 4294967 * 1000 + 296); a total of 2^32 or more is out of the
\* integers the model uses.
Uint32MsParts(x) ==
  IF x >= 0 THEN <<x \div 1000, x % 1000>>
  ELSE <<4294967 + (296 + x) \div 1000, (296 + x) % 1000>>

\* timeval_to_str: tv_sec * 1000000 + tv_usec as uint32_t, in milliseconds
\* with three decimals.
timeval_to_str(t) == Uint32MsParts(t.tv_sec * 1000000 + t.tv_usec)

\* timeval_diff_to_str.
timeval_diff_to_str(a, b) == timeval_to_str(timeval_diff(a, b))

\* The timestamp mt_wait hands to mt_receive: the pcap header's struct
\* timeval copied into a struct timespec.
PcapTimespec(tv) == [tv_sec |-> tv.tv_sec, tv_nsec |-> tv.tv_usec * 1000]

\* probe_match takes the timespec through a const struct timeval * and
\* stores *ts as response_time: the same two longs, read as seconds and
\* microseconds.
AsTimeval(ts) == [tv_sec |-> ts.tv_sec, tv_usec |-> ts.tv_nsec]
=============================================================================
