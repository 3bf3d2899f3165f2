------------------------------ MODULE Chunking ------------------------------
(***************************************************************************)
(* How the HW4 client cuts a file into parts: createJobsList, its loop one *)
(* step per job.  A job is the inclusive range of byte positions that the  *)
(* client will ask a server for.                                           *)
(***************************************************************************)
EXTENDS Integers, Sequences, FiniteSets

CONSTANTS MaxTotal, \* bound on the length of the file
          MaxJobs   \* bound on num-connections

ASSUME BoundsAssumption == MaxTotal \in Nat /\ MaxJobs \in Nat \ {0}

VARIABLES total_size, \* length of the file, from the CHK response
          job_num,    \* num-connections
          jobs        \* the jobs made so far, in order of job_id

split_vars == <<total_size, job_num, jobs>>

single_length == total_size \div job_num

SplitInit == /\ total_size \in 0 .. MaxTotal
             /\ job_num \in 1 .. MaxJobs
             /\ jobs = << >>

\* Mutant: the last job is not stretched to the end of the file.
FileEndUneven(i) == (i + 1) * single_length - 1

FileStart(i) == i * single_length
FileEnd(i) == IF i = job_num - 1 THEN total_size - 1
                                 ELSE (i + 1) * single_length - 1

AddJob == /\ Len(jobs) < job_num
          /\ LET i == Len(jobs)
             IN  jobs' = Append(jobs, [file_start |-> FileStart(i),
                                       file_end   |-> FileEnd(i)])
          /\ UNCHANGED <<total_size, job_num>>

\* The list is returned to main.
Return == Len(jobs) = job_num /\ UNCHANGED split_vars

SplitNext == AddJob \/ Return

SplitSpec == SplitInit /\ [][SplitNext]_split_vars

-----------------------------------------------------------------------------
Bytes(k) == jobs[k].file_start .. jobs[k].file_end

SplitTypeOK == /\ total_size \in 0 .. MaxTotal
               /\ job_num \in 1 .. MaxJobs
               /\ jobs \in Seq([file_start : Nat, file_end : Nat \cup {-1}])
               /\ Len(jobs) <= job_num

\* Combining the files in order of job_id gives the file back: once all jobs
\* are made each byte of the file belongs to exactly one job, no job reaches
\* past the end of the file, and the jobs follow one another.
SplitCovers ==
  Len(jobs) = job_num =>
    /\ \A b \in 0 .. total_size - 1 : \E k \in 1 .. job_num : b \in Bytes(k)
    /\ \A k \in 1 .. job_num : Bytes(k) \subseteq 0 .. total_size - 1
    /\ \A k, m \in 1 .. job_num :
         k < m => \A b \in Bytes(k), c \in Bytes(m) : b < c
=============================================================================
