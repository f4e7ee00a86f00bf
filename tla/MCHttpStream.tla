---------------------------- MODULE MCHttpStream ----------------------------
(* A small instance of HttpStream by itself. *)
EXTENDS HttpStream

(* A line is kept in more bytes than it came in, or in fewer.              *)
McSizes == {<<2, 3>>, <<2, 1>>}
=============================================================================
