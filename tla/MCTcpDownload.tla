--------------------------- MODULE MCTcpDownload ---------------------------
(* One client over files of every small length, with everything that may   *)
(* go wrong at its two servers or with itself, and two clients whose lists *)
(* overlap, of which one may be killed.                                    *)
EXTENDS TcpDownload

CONSTANTS c1, c2, s1, s2

Lists(la, lb) == [c \in Clients |-> IF c = c1 THEN la ELSE lb]
Download(la, lb, n, size) ==
  [list |-> Lists(la, lb), num |-> [c \in Clients |-> n], filesize |-> size,
   down |-> {}, without |-> {}, mortal |-> {}, leaving |-> {},
   short |-> FALSE, aliased |-> FALSE]

\* Client c2 has no server to ask.
Alone(n, size) == Download(<<s1, s2>>, << >>, n, size)

Lengths  == {Alone(n, size) : n \in 1 .. 2, size \in 0 .. 9}
Failures == {[Alone(2, 7) EXCEPT !.down = d, !.without = w, !.mortal = m] :
               d \in {{}, {s1}}, w \in {{}, {s1}, {s2}}, m \in {{}, {s1, s2}}}
Shorts   == {[Alone(n, 5) EXCEPT !.short = TRUE, !.mortal = m] : n \in 1 .. 2, m \in {{}, {s1}}}
Aliased  == {[Alone(n, 4) EXCEPT !.aliased = TRUE] : n \in 1 .. 2}
Overlaps == {Download(la, lb, n, 2) :
               la \in {<<s1, s2>>, <<s1, s2, s1>>}, lb \in {<<s1>>, <<s1, s2>>, <<s2, s1>>}, n \in 2 .. 3}
              \cup {Download(<<s1, s2, s1>>, <<s1, s2, s1>>, 3, 2)}

Killed   == {[Alone(n, 9) EXCEPT !.leaving = {c1}, !.mortal = m] : n \in 1 .. 2, m \in {{}, {s1}}}
              \cup {[Download(<<s1, s2>>, lb, 2, 9) EXCEPT !.leaving = {c1}] :
                       lb \in {<<s1>>, <<s2, s1>>}}
              \cup {[Alone(2, 5) EXCEPT !.leaving = {c1}, !.short = x, !.aliased = ~x] :
                       x \in BOOLEAN}

Downloads == Killed \cup Lengths \cup Failures \cup Shorts \cup Aliased \cup Overlaps
=============================================================================
