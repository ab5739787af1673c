------------------------------ MODULE ApiDirs ------------------------------
(***************************************************************************)
(* Directories of .aidl files, and what the aidl compiler's --checkapi     *)
(* says of two of them.  The compiler is external to this repository: a    *)
(* preorder on the contents of a file stands for its rules.  Two contents  *)
(* that extend each other differ in comments or layout only.               *)
(***************************************************************************)
CONSTANTS
    File,     \* the .aidl files of the interface
    Content,  \* what a file may hold
    Extends,  \* <<a, b>>: --checkapi=compatible accepts b as the successor of a
    Absent    \* the file does not exist

ASSUME ExtendsPreorder ==
    /\ Extends \subseteq Content \X Content
    /\ \A a \in Content : <<a, a>> \in Extends
    /\ \A a, b, c \in Content :
         <<a, b>> \in Extends /\ <<b, c>> \in Extends => <<a, c>> \in Extends

ASSUME AbsentAssumption == Absent \notin Content

Dir == [File -> Content \cup {Absent}]

EmptyDir == [f \in File |-> Absent]

Present(d) == {f \in File : d[f] # Absent}

\* aidl --checkapi=compatible
Compatible(old, new) ==
    \A f \in Present(old) : f \in Present(new) /\ <<old[f], new[f]>> \in Extends

\* aidl --checkapi=equal
Equal(a, b) == Compatible(a, b) /\ Compatible(b, a)

=============================================================================
