CONSTANTS
  m1 = m1
  tunnel = tunnel
  Machines = {m1}
  Sessions = {tunnel}
  De <- DeMC
  Cadences = {1, 2}
  Minute = 4
  Retard = 1
  PlancherTolerance = 6
  PlancherLecture = 8
  PlancherValidite = 7
  PlancherFermeture = 7
  DelaiPoignee = 2
  PeriodePoignees = 1
  MaxTours = 3
  Baisse = FALSE
SPECIFICATION Spec
INVARIANTS TypeOK SaineGardee LigneSurvit PoigneeBornee
