------------------------------ MODULE MCSniffer ------------------------------
EXTENDS Sniffer

(* One byte short of, and exactly, every length the checks ask for. *)
MCLens ==
    LET needed == {14} \cup {link + ip : link \in {0, 14}, ip \in {20, 24}}
                       \cup {link + ip + l4 : link \in {0, 14}, ip \in {20, 24},
                                             l4 \in {8, 20}}
    IN  needed \cup {n - 1 : n \in needed}

=============================================================================
