------------------------------ MODULE MCUploads ------------------------------
(* Uploads of archives whose pictures differ in size and format. *)
EXTENDS JobUploads

Member(score, format, whole) ==
  [picture |-> TRUE, whole |-> whole, score |-> score, format |-> format,
   chunks |-> Chunk, lines |-> TRUE]

Model  == [Member(0, "other", TRUE) EXCEPT !.picture = FALSE]
NoEnd  == [Member(0, "rgba", TRUE) EXCEPT !.chunks = {"IHDR", "IDAT"}]
Filter == [Member(0, "rgb", TRUE) EXCEPT !.lines = FALSE]

MCNozzles == {<<"0.4", "">>, <<"0.4", "mm">>, <<"0.40", "">>}

MCArchives == {<<Model>>, <<Model, Member(1, "rgba", TRUE)>>, <<NoEnd>>, <<Filter, Model>>,
               <<Member(2, "rgb", TRUE), Model, Member(1, "other", TRUE)>>,
               <<Member(1, "other", FALSE), Member(2, "rgb", TRUE), Member(0, "rgb", TRUE)>>}
=============================================================================
