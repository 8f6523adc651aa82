-------------------------------- MODULE DevicesMC --------------------------------
(* A small instance of Devices. *)
EXTENDS Devices

\* The first and the last time the clock has, a leap day, and months and a year that
\* it has not.
MCTimes ==
  {<<2000, 1, 1, 0, 0, 0>>, <<2024, 2, 29, 12, 30, 0>>, <<2099, 12, 31, 23, 59, 59>>,
   <<1999, 12, 31, 0, 0, 0>>, <<2024, 0, 1, 0, 0, 0>>, <<2024, 13, 1, 0, 0, 0>>}

\* Refused at once, below the band, both its ends, one to be rounded, above it.
MCFreqs == {-1, 0, 2020000000, 2027200001, 2030000000, 2100000000}

\* 0, 1 and 2^16 ms, the longest that has a number of microseconds, and one more.
MCDurations ==
  {<<0, 0, 0, 0>>, <<1, 0, 0, 0>>, <<0, 0, 1, 0>>, <<55, 137, 65, 0>>, <<56, 137, 65, 0>>}

\* One byte too few, and one too many; and what the library does not send: a frequency
\* that does not fit in 32 bits, one below the band, the highest voltage, a signal of
\* no length, no position of the antenna.
MCRequests ==
  [type : {1}, payload : {<<232, 7, 1, 1, 0, 0>>, <<208, 7, 12, 31, 0, 0, 0, 9>>}]
    \cup [type : {3}, payload : {<<1, 2, 3, 4, 5, 6, 7>>, <<0, 0, 0, 0, 1, 0, 0, 0>>,
                                 <<5, 0, 0, 0, 0, 0, 0, 0>>}]
    \cup [type : {5}, payload : {<<>>, <<127>>}]
    \cup [type : {7}, payload : {<<1, 0, 0>>, <<0, 0, 0, 0>>}]
    \cup [type : {8}, payload : {<<>>, <<2>>}]
=============================================================================
