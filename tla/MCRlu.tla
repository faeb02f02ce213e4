------------------------------- MODULE MCRlu -------------------------------
(* Values for the constants of Rlu that a configuration file cannot write. *)
EXTENDS RluImplements, TLC

CONSTANTS Starts0, Starts1, Starts2   \* sections of threads 0, 1 and the others

Symmetric == Permutations(Objs)

Starts == [t \in Threads |-> CASE t = 0 -> Starts0 [] t = 1 -> Starts1 [] OTHER -> Starts2]

\* The fine-grained type takes no writer locks; the coarse-grained one takes
\* one over all the objects, or the lock of the object.
NoLock   == [o \in Objs |-> NULL]
TheLock  == [o \in Objs |-> CHOOSE l \in WriterLocks : TRUE]
OwnLock  == CHOOSE f \in [Objs -> WriterLocks] :
                \A o1, o2 \in Objs : o1 # o2 => f[o1] # f[o2]
=============================================================================
