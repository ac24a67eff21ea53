----------------------------- MODULE MCWriteBatch -----------------------------
(* WriteBatch with batches of up to three articles over three URLs and titles. *)
EXTENDS WriteBatch
A(url, title, badge) == [url |-> url, title |-> title, badge |-> badge]
SomeBatches ==
  { <<A("u1", "t1", FALSE), A("u2", "t2", TRUE)>>,
    <<A("u2", "t2", FALSE), A("u1", "t1", TRUE)>>,
    <<A("u2", "t1", TRUE), A("u3", "t3", TRUE)>>,
    <<A("u1", "t1", TRUE), A("u1", "t2", FALSE), A(NULL, "t3", FALSE)>> }
\* A single batch with one title twice.
OneBatch == { <<A("u1", "t1", FALSE), A("u2", "t1", FALSE)>> }
===============================================================================
