--------------------------- MODULE MCSmartypants ---------------------------
(* Each group of handlers with the characters it reads, long enough for    *)
(* the longest spelling: `. . .` and a date of three numbers take five,    *)
(* one with a number of two digits six.                                    *)
EXTENDS Smartypants

Config(d, f, alphabet, n) ==
  [dashes |-> d, fractions |-> f, alphabet |-> alphabet, length |-> n]

MCConfigs ==
  {Config("none", FALSE, {"a", "s", " ", Quot, Nul, "<", "'", "tick"}, 4)}
    \cup {Config(d, FALSE, {"a", " ", "-", ".", "(", "c", ")", "<", ">"}, 5) :
            d \in {"none", "dash", "latex"}}
    \cup {Config("none", FALSE, {"1", "2", "3", "4", "/", "t", "h", " "}, 5),
          Config("none", TRUE, {"1", "2", "/", "frasl", "t", " "}, 6)}
=============================================================================
