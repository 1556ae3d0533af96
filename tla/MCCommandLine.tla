---------------------------- MODULE MCCommandLine ----------------------------
(* Instances of CommandLine small enough for TLC. *)
EXTENDS CommandLine

Tok(name) == [name |-> name, inline |-> "none"]
With(name, value) == [name |-> name, inline |-> value]

\* Two commands, a plugin, and a word that is no command but a good value
SomeWords == {"validate", "build", "ext", "json"}

Takes == [o \in {"--output", "-o"} |-> {"text", "json", "yaml"}] @@
         [o \in {"--log-level"} |-> {"error", "debug"}]

Installed == {"ext"}
Returned == {0, 3, -15}

\* Every kind of token: options with a value apart, glued, empty or wrong, flags,
\* clusters, a command's own option, help, "--" and words
Everything ==
  {Tok(w) : w \in SomeWords} \union
  {Tok("--config"), With("--config", "x"), With("--config", ""), Tok("-o"), Tok("-v"), Tok("-q"),
   Tok("-vv"), With("--log-level", "error"), With("--verbose", "1"), Tok("--strict"),
   Tok("--help"), Tok("-ojson"), Tok("--")}

\* The tokens whose places matter most
Movers ==
  {Tok("build"), Tok("json"), Tok("--config"), With("--config", ""), Tok("-v"),
   Tok("--")}

ShortAndLong == BoundedSeq(Everything, 3) \union BoundedSeq(Movers, 5)

\* Nothing out of the ordinary: no empty value, no "--"
PlainLines == BoundedSeq(Movers \ {With("--config", ""), Tok("--")}, 4)
=============================================================================
