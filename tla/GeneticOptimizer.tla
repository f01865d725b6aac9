-------------------------- MODULE GeneticOptimizer --------------------------
(***************************************************************************)
(* The genetic optimizer of prompts (engine/genetic_optimizer.py): a run   *)
(* evaluates a population, takes the next from the fittest, and stops when *)
(* it stagnates; the state of a run can be saved and loaded.               *)
(*                                                                         *)
(* A chromosome is its genes, and its fitness is a small number.  What the *)
(* evaluation of a chromosome returns is external and depends on its seed, *)
(* which every copy has anew.  The parameters that are inherited apart     *)
(* from the genes, one by one (the sampler, the weights of the LoRAs), are *)
(* left out.                                                               *)
(***************************************************************************)
EXTENDS Integers, Sequences, FiniteSets, FiniteSetsExt

CONSTANTS
    NumGenes,       \* the genes of a chromosome, in the order of their keys
    Values,         \* of a gene
    Size, EliteCount, Tournament, Generations, MaxStagnation,   \* of GeneticAlgorithmConfig
    Mutating,       \* is the mutation rate positive?
    MaxFitness,     \* bound: a fitness
    Scored          \* does run() have an evaluation_func?

VARIABLES
    phase,          \* of run(): new, evaluate, score, check, evolve or done
    population,     \* the chromosomes
    bestFitness,    \* of the population, as it is recorded there
    generation,
    best,           \* _best_chromosome, with the fitness that it had when it was chosen
    stagnation,     \* _stagnation_count
    lastBest,       \* _last_best_fitness
    file            \* what save_state() has written, or NoFile

vars == <<phase, population, bestFitness, generation, best, stagnation, lastBest, file>>

Keys == 1..NumGenes
Genes == [Keys -> Values]
Chromosome == [genes : Genes, fitness : 0..MaxFitness]
NoBest == [genes |-> <<>>, fitness |-> 0, was |-> 0]
NoFile == [population |-> <<>>, bestFitness |-> 0, generation |-> 0, stagnation |-> 0]

TypeOK ==
    /\ phase \in {"new", "evaluate", "score", "check", "evolve", "done"}
    /\ population \in Seq(Chromosome) /\ Len(population) \in {0, Size}
    /\ bestFitness \in 0..MaxFitness /\ lastBest \in 0..MaxFitness
    /\ generation \in 0..Generations
    /\ best = NoBest \/ (best.genes \in Genes /\ best.fitness <= best.was)
    /\ stagnation \in 0..MaxStagnation

Init ==
    /\ phase = "new" /\ population = <<>> /\ bestFitness = 0 /\ generation = 0
    /\ best = NoBest /\ stagnation = 0 /\ lastBest = 0
    /\ file = NoFile

-----------------------------------------------------------------------------
(* The operators.                                                          *)

\* Chromosome.copy(): with another seed, and not evaluated.
Copy(genes) == [genes |-> genes, fitness |-> 0]

Fittest(p) == {i \in DOMAIN p : \A k \in DOMAIN p : p[k].fitness <= p[i].fitness}

\* The sorted population: one of the orders by fitness, descending.
Sorted(p) ==
    LET Above(a, b) == p[a].fitness > p[b].fitness \/ (p[a].fitness = p[b].fitness /\ a < b)
    IN  [n \in DOMAIN p |-> p[CHOOSE i \in DOMAIN p : Cardinality({k \in DOMAIN p : Above(k, i)}) = n - 1]]

\* As Elite below, of an ascending order.
EliteReversed(p) == [n \in 1..EliteCount |-> Copy(Sorted(p)[Len(p) + 1 - n].genes)]

Elite(p) == [n \in 1..EliteCount |-> Copy(Sorted(p)[n].genes)]

\* Whom _tournament_select() may return: a fittest of Tournament chromosomes.
Selected(p) == {i \in DOMAIN p : Cardinality({k \in DOMAIN p : p[k].fitness <= p[i].fitness}) >= Tournament}

\* _crossover() exchanges the genes from one of two points to before the other.
Children(a, b) ==
    {<<a, b>>} \union
    {<<[k \in Keys |-> IF from <= k /\ k < to THEN b[k] ELSE a[k]],
       [k \in Keys |-> IF from <= k /\ k < to THEN a[k] ELSE b[k]]>> : from \in Keys, to \in Keys}

\* _mutate() may replace any gene.
Mutations(genes) == IF Mutating THEN Genes ELSE {genes}

\* The two children of a tournament for each parent.
Offspring(p) ==
    LET Pairs == UNION {Children(p[i].genes, p[k].genes) : i, k \in Selected(p)}
    IN  UNION {{<<Copy(c), Copy(d)>> : c \in Mutations(pair[1]), d \in Mutations(pair[2])} : pair \in Pairs}

\* What evolve_generation() makes of a population: the elite, and pairs of children until
\* there are enough, of which the last may be trimmed.
Evolved(p) ==
    {[n \in 1..Size |->
        LET m == n - EliteCount
        IN  IF m <= 0 THEN Elite(p)[n] ELSE pairs[(m + 1) \div 2][2 - (m % 2)]] :
     pairs \in [1..((Size - EliteCount + 1) \div 2) -> Offspring(p)]}

-----------------------------------------------------------------------------
(* run().                                                                  *)

\* initialize_population().
InitializePopulation ==
    /\ phase \in {"new", "done"}
    /\ \E genes \in [1..Size -> Genes] : population' = [i \in 1..Size |-> Copy(genes[i])]
    /\ bestFitness' = 0 /\ generation' = 0
    /\ phase' = "evaluate"
    /\ UNCHANGED <<best, stagnation, lastBest, file>>

\* evaluate_population().  Without an evaluation_func the fitness is random, and the best
\* fitness of the population is not recorded.
EvaluatePopulation ==
    /\ phase = "evaluate"
    /\ \E fitness \in [1..Size -> 0..MaxFitness] :
        /\ population' = [i \in 1..Size |-> [population[i] EXCEPT !.fitness = fitness[i]]]
        /\ bestFitness' = IF Scored THEN Max({fitness[i] : i \in 1..Size}) ELSE bestFitness
    /\ phase' = "score"
    /\ UNCHANGED <<generation, best, stagnation, lastBest, file>>

\* The best chromosome of a later generation is kept as a copy, whose fitness is zero.
UpdateBest ==
    /\ phase = "score"
    /\ \E i \in Fittest(population) :
        LET p == population[i] IN
        best' = IF generation = 0 THEN [genes |-> p.genes, fitness |-> p.fitness, was |-> p.fitness]
                ELSE IF p.fitness > best.fitness THEN [genes |-> p.genes, fitness |-> 0, was |-> p.fitness]
                ELSE best
    /\ phase' = IF generation = 0 THEN "evolve" ELSE "check"
    /\ UNCHANGED <<population, bestFitness, generation, stagnation, lastBest, file>>

\* _check_convergence(), after every generation but the first.
CheckConvergence ==
    /\ phase = "check"
    /\ stagnation' = IF bestFitness <= lastBest THEN Min({stagnation + 1, MaxStagnation}) ELSE 0
    /\ lastBest' = bestFitness
    /\ phase' = IF stagnation' = MaxStagnation \/ generation = Generations THEN "done" ELSE "evolve"
    /\ UNCHANGED <<population, bestFitness, generation, best, file>>

EvolveGeneration ==
    /\ phase = "evolve"
    /\ population' \in Evolved(population)
    /\ bestFitness' = 0 /\ generation' = generation + 1
    /\ phase' = "evaluate"
    /\ UNCHANGED <<best, stagnation, lastBest, file>>

\* The callback of a generation, or whoever has the optimizer, saves the state; what is loaded
\* is the population without the best chromosome, and a run starts with another one.
SaveState ==
    /\ phase \in {"check", "done"}
    /\ file' = [population |-> population, bestFitness |-> bestFitness, generation |-> generation,
                stagnation |-> stagnation]
    /\ UNCHANGED <<phase, population, bestFitness, generation, best, stagnation, lastBest>>

LoadState ==
    /\ phase \in {"new", "done"} /\ file # NoFile
    /\ population' = file.population /\ bestFitness' = file.bestFitness
    /\ generation' = file.generation /\ stagnation' = file.stagnation
    /\ UNCHANGED <<phase, best, lastBest, file>>

Crash ==
    /\ phase' = "new" /\ population' = <<>> /\ bestFitness' = 0 /\ generation' = 0
    /\ best' = NoBest /\ stagnation' = 0 /\ lastBest' = 0
    /\ UNCHANGED file

Next ==
    \/ InitializePopulation \/ EvaluatePopulation \/ UpdateBest \/ CheckConvergence \/ EvolveGeneration
    \/ SaveState \/ LoadState \/ Crash

Spec == Init /\ [][Next]_vars

-----------------------------------------------------------------------------
(* Properties.                                                             *)

\* The genes of a fittest chromosome live on: neither the order, the children nor a mutation
\* loses them.
EliteLives ==
    [][phase = "evolve" /\ phase' = "evaluate" =>
        \E i \in Fittest(population), k \in 1..Size : population'[k].genes = population[i].genes]_vars

\* What a run returns, and get_best_prompt(), is as fit as the best of any generation so far
\* ("Get best prompt as GenerationConfig.", genetic_optimizer.py:727): a step never trades the
\* best chromosome for a less fit one within a run.
BestIsBest == [][phase = "score" /\ generation > 0 /\ phase' = "check" => best.was <= best'.was]_vars

\* A run ends early only when its own generations have stagnated.
StagnantByItself ==
    [][phase = "check" /\ phase' = "done" /\ generation < Generations => generation >= MaxStagnation]_vars
=============================================================================
