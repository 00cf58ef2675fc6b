----------------------------- MODULE MCProcess ------------------------------
(* The values console.cfg gives Process. *)
EXTENDS Process

\* Two lines with a blank one between; a newline alone; no bytes.
MCFrames == {[header |-> 2, parts |-> <<"b", "", "c", "", "">>],
             [header |-> 1, parts |-> <<"", "">>],
             [header |-> 0, parts |-> <<"">>]}

\* A pool that starts later than by default; one that starts behind the default
\* end; one that ends before it starts; ports that do not exist; no server
\* allowed.
MCConfigs ==
  LET Env(start, end, max) == [start |-> start, end |-> end, max |-> max]
  IN  {Env(<<25570>>, << >>, << >>), Env(<<30000>>, << >>, << >>),
       Env(<<30100>>, <<30000>>, << >>), Env(<<0>>, << >>, << >>),
       Env(<< >>, <<65536>>, << >>), Env(<< >>, << >>, <<0>>)}
=============================================================================
