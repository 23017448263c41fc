---------------------------- MODULE MCDataQuery ----------------------------
(***************************************************************************)
(* Instances of DataQuery for TLC.                                         *)
(***************************************************************************)
EXTENDS DataQuery

CONSTANTS t1, t2

\* Two identities: one thread may be joined while the next one is started.
MCThreads == {t1, t2}

\* Results whose pages all have rows once the first row was seen: an empty
\* result, empty pages in front, one page, and several pages.
FullPages == {<<0>>, <<0, 0>>, <<2>>, <<0, 1>>, <<2, 1>>, <<0, 1, 2>>, <<1, 2, 1>>,
              <<0, 0, 2, 1, 1, 2>>}

\* Results with an empty page after the first row: last, or in the middle.
HoledPages == {<<1, 0>>, <<1, 0, 1>>}

AnyPages == FullPages \cup HoledPages
=============================================================================
