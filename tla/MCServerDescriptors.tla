------------------------- MODULE MCServerDescriptors -------------------------
(* Small instances of ServerDescriptors for TLC.                           *)
EXTENDS ServerDescriptors

(* A starting table: stdio and the given descriptors, all inherited.       *)
StartsWith(extra) ==
  [f \in Fd |->
     IF f \in Stdio THEN [kind |-> "Stdio", own |-> FALSE]
     ELSE IF f \in DOMAIN extra THEN [kind |-> extra[f], own |-> FALSE]
     ELSE Free]

(* A species without a logger: nothing else is open, the parent passed the *)
(* socket, or an allowed file and an allowed bound socket are open.        *)
PlainStarts ==
  {StartsWith(<<>>),
   StartsWith([f \in {3} |-> "Listen"]),
   StartsWith([f \in {3} |-> "File"]),
   StartsWith([f \in {3, 4} |-> IF f = 3 THEN "File" ELSE "Bound"])}

(* AndroidNative: the logger has a descriptor already; init passed the     *)
(* socket at a higher number, or the server creates one.                   *)
LoggerFirst ==
  {StartsWith([f \in {3} |-> "Log"]),
   StartsWith([f \in {3, 9} |-> IF f = 3 THEN "Log" ELSE "Listen"])}

(* With an allowed file; with the socket below the logger; with a          *)
(* descriptor that is on no allow list.                                    *)
LoggerStarts == LoggerFirst \cup
  {StartsWith([f \in {3, 4} |-> IF f = 3 THEN "Log" ELSE "File"]),
   StartsWith([f \in {3, 4} |-> IF f = 3 THEN "Listen" ELSE "Log"]),
   StartsWith([f \in {3, 4} |-> IF f = 3 THEN "Unlisted" ELSE "Log"])}

PreloadFiles == {"File"}
PreloadAnything == {"File", "Bound", "Unlisted", "DevNull"}
Nothing == {}
SetupFaults == {"socket", "epoll"}
AllFaults == {"devnull", "reopen", "socket", "epoll"}

=============================================================================
