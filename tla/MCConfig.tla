------------------------------ MODULE MCConfig -------------------------------
EXTENDS Config

(* Lists that are good, too short, too long, with a repeat at a distance, an *)
(* entry out of range or none at all.                                        *)
MCPortLists ==
    {<<1, 2>>, <<4, 3, 2, 1>>, <<5>>, <<1, 2, 3, 4, 5>>, <<1, 2, 1>>,
     <<6, 70000, 7>>, <<>>}

(* Below, at and above every limit. *)
MCNumbers == {-1, 0, 1, 4, 65535, 65536, 65537}

MCNames == {"", "eth0", "far_too_long"}

MCNameLen(name) == CASE name = "" -> 0 [] name = "eth0" -> 4 [] OTHER -> 12

=============================================================================
