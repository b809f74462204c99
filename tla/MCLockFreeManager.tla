-------------------------- MODULE MCLockFreeManager --------------------------
(***************************************************************************)
(* Instances of LockFreeManager.  Slots are numbered: <<allocator, class,  *)
(* number>>, so that an instance is given by how many slots an allocator   *)
(* has of each class.                                                      *)
(***************************************************************************)
EXTENDS LockFreeManager

CONSTANTS Objects,  \* Objects[a]: slots of the class "object"
          Carriers  \* Carriers[a]: slots of the class of nodes

SlotsFrom(count, class) ==
  UNION {{<<a, class, i>> : i \in 1 .. count[a]} : a \in DOMAIN count}
MCSlots == SlotsFrom(Objects, "object") \union SlotsFrom(Carriers, "node")
MCOwner == [s \in MCSlots |-> s[1]]
MCClass == [s \in MCSlots |-> s[2]]

(* Two allocators that use one another's pointers.                         *)
Two == {1, 2}
TwoObjects == <<1, 1>>
TwoCarriers == <<1, 1>>
TwoDemand == <<{"object"}, {"object"}>>
(* The program uses extra-large objects only.                              *)
NoDemand == <<{}, {}>>
(* Two threads push to the list of a third one, which gives their nodes    *)
(* back; one of the two uses objects of the class of nodes itself.         *)
Three == {1, 2, 3}
ThreeObjects == <<2, 0, 0>>
ThreeCarriers == <<0, 1, 1>>
ThreeDemand == <<{"object"}, {"node"}, {}>>
=============================================================================
