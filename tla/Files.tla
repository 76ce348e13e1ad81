------------------------------- MODULE Files -------------------------------
(* What the file system promises: names lead to files, a file is a sequence  *)
(* of sectors, writing one file changes no other, a removed file lives on    *)
(* until it is closed, and a crash closes files and loses nothing else.      *)
EXTENDS Integers, Sequences

CONSTANTS Name, Handle, Data, Zero, MaxSectors,
          Id, NoId    \* files, and none
VARIABLES named,      \* the file of each name
          opened,     \* the file of each handle
          content     \* of each file

FilesInit == /\ named = [n \in Name |-> NoId]
             /\ opened = [h \in Handle |-> NoId]
             /\ content = [i \in Id |-> <<>>]

\* A file that no name and no handle leads to is gone.
Alive(names, handles) == { names[n] : n \in Name } \cup { handles[h] : h \in Handle }
Kept == [i \in Id |-> IF i \in Alive(named', opened') THEN content[i] ELSE <<>>]

Create(n, i) ==
  /\ named[n] = NoId /\ i \notin Alive(named, opened)
  /\ named' = [named EXCEPT ![n] = i]
  /\ \E len \in 0..MaxSectors : content' = [content EXCEPT ![i] = [s \in 1..len |-> Zero]]
  /\ UNCHANGED opened
Remove(n) == /\ named' = [named EXCEPT ![n] = NoId]
             /\ UNCHANGED opened /\ content' = Kept
Open(h, n) == /\ opened[h] = NoId /\ opened' = [opened EXCEPT ![h] = named[n]]
              /\ UNCHANGED <<named, content>>
Close(h) == /\ opened' = [opened EXCEPT ![h] = NoId]
            /\ UNCHANGED named /\ content' = Kept

Write(i, s, v) == /\ s \in DOMAIN content[i]
                  /\ content' = [content EXCEPT ![i][s] = v]
                  /\ UNCHANGED <<named, opened>>
Crash == /\ opened' = [h \in Handle |-> NoId]
         /\ UNCHANGED named /\ content' = Kept

FilesNext == \/ \E n \in Name, i \in Id : Create(n, i)
             \/ \E n \in Name : Remove(n) \/ \E h \in Handle : Open(h, n)
             \/ \E h \in Handle : Close(h)
             \/ \E h \in Handle, v \in Data :
                  /\ opened[h] # NoId
                  /\ \E s \in DOMAIN content[opened[h]] : Write(opened[h], s, v)
             \/ Crash
FilesSpec == FilesInit /\ [][FilesNext]_<<named, opened, content>>
=============================================================================
