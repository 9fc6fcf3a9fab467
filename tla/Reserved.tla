------------------------------ MODULE Reserved ------------------------------
(***************************************************************************)
(* The private and reserved addresses by the first and last one of each    *)
(* range: what the prefixes of Indicators' PrivateBlocks ought to mean,    *)
(* said without masks.                                                     *)
(***************************************************************************)
EXTENDS Indicators

\* IPv4, as bytes.
Ranges4 == {
    << <<0, 0, 0, 0>>,       <<0, 255, 255, 255>> >>,
    << <<10, 0, 0, 0>>,      <<10, 255, 255, 255>> >>,
    << <<100, 64, 0, 0>>,    <<100, 127, 255, 255>> >>,
    << <<127, 0, 0, 0>>,     <<127, 255, 255, 255>> >>,
    << <<169, 254, 0, 0>>,   <<169, 254, 255, 255>> >>,
    << <<172, 16, 0, 0>>,    <<172, 31, 255, 255>> >>,
    << <<192, 0, 0, 0>>,     <<192, 0, 0, 255>> >>,
    << <<192, 0, 2, 0>>,     <<192, 0, 2, 255>> >>,
    << <<192, 168, 0, 0>>,   <<192, 168, 255, 255>> >>,
    << <<198, 18, 0, 0>>,    <<198, 19, 255, 255>> >>,
    << <<198, 51, 100, 0>>,  <<198, 51, 100, 255>> >>,
    << <<203, 0, 113, 0>>,   <<203, 0, 113, 255>> >>,
    << <<224, 0, 0, 0>>,     <<255, 255, 255, 255>> >> }

\* IPv6, as 16-bit words.
Led(a, b, rest) == <<a, b, rest, rest, rest, rest, rest, rest>>
Ranges6 == {
    << Led(0, 0, 0), <<0, 0, 0, 0, 0, 0, 0, 1>> >>,
    << Led(64512, 0, 0), Led(65023, 65535, 65535) >>,
    << Led(65152, 0, 0), Led(65215, 65535, 65535) >>,
    << Led(65280, 0, 0), Led(65535, 65535, 65535) >>,
    << Led(8193, 3512, 0), Led(8193, 3512, 65535) >> }

\* Lexicographic order.
AtMost(a, b) ==
    a = b \/ \E i \in 1..Len(a) :
                a[i] < b[i] /\ \A j \in 1..(i - 1) : a[j] = b[j]
Within(ranges, a) == \E r \in ranges : AtMost(r[1], a) /\ AtMost(a, r[2])

=============================================================================
