---------------------------- MODULE MCCellReader ----------------------------
(* Results for model checking CellReader: three rows of two columns, with  *)
(* cells of different lengths under one another.                           *)
EXTENDS CellReader

AsciiCells == << << <<1, 2, 3, 4>>, <<1, 2, 3>> >>,
                 << <<1, 2>>, <<1>> >>,
                 << <<1, 2, 3>>, <<1, 2, 3, 4, 5>> >> >>
=============================================================================
