SPECIFICATION AllSpec
CONSTANTS
    None = None
    Quotes = {q1, q2}
    Groups = {g1}
    Projects = {p1}
    Revisions = {r1}
    Txs = {t1, t2}
    OneTime <- Worth
    Prices = {}
    Amounts = {2}
    Taxes = {gst}
    Percentages = {1, 2}
    Units = {1, 3}
    Quantities = {1, 2}
    LineDiscounts = {0, 1}
    AmountsOff = {1}
    Scale = 2
    Hundred = 4
    MaxLines = 3
    MaxChanges = 1
    q1 = q1
    q2 = q2
CONSTRAINT Bounded
INVARIANTS TypeOK ChoiceRecorded LosersClosed PricesAddUp
PROPERTIES AnswerIsFinal AcceptanceAdds StaleIsExpired
